---- MODULE Spec2Model ----
(***************************************************************************)
(* A model of the persistence layer of the music player: the local store   *)
(* (db.ts), the persistence hook (lib/persistence/hooks.ts) and the        *)
(* handlers of the player component (components/music-player.tsx) that     *)
(* drive it.                                                               *)
(*                                                                         *)
(* Timestamps (Date.now()) are left out of every record: no operation      *)
(* reads them back.  Time is kept only as the age of the armed debounce    *)
(* timer, in milliseconds.                                                 *)
(***************************************************************************)
EXTENDS Integers, Sequences, FiniteSets, TLC

(***************************************************************************)
(* Strings.  TLC cannot index a string, so charCodeAt is a table from the  *)
(* names the model uses to their UTF-16 code units.                        *)
(***************************************************************************)
\* the names of the tracks of a folder of 51 tracks: A to Z and a to y
Letters ==
  <<"A", "B", "C", "D", "E", "F", "G", "H", "I", "J", "K", "L", "M", "N",
    "O", "P", "Q", "R", "S", "T", "U", "V", "W", "X", "Y", "Z", "a", "b",
    "c", "d", "e", "f", "g", "h", "i", "j", "k", "l", "m", "n", "o", "p",
    "q", "r", "s", "t", "u", "v", "w", "x", "y">>

\* the code unit of a letter: A is 65 and a is 97
LetterCode(s) ==
  LET i == CHOOSE i \in 1..Len(Letters) : Letters[i] = s
  IN  IF i <= 26 THEN 64 + i ELSE 70 + i

CharCodes(s) ==
  CASE s = "A"     -> <<65>>
    [] s = "B"     -> <<66>>
    [] s = "C"     -> <<67>>
    [] s = "Album" -> <<65, 108, 98, 117, 109>>
    [] s = "Live"  -> <<76, 105, 118, 101>>
    [] s = "::"    -> <<58, 58>>
    [] s = "|"     -> <<124>>
    [] OTHER       -> <<LetterCode(s)>>

RECURSIVE SeqLess(_, _)
\* a < b for strings, as Array.prototype.sort's default comparison orders
\* them: by code unit, a proper prefix first
SeqLess(a, b) ==
  IF b = <<>> THEN FALSE
  ELSE IF a = <<>> THEN TRUE
  ELSE IF Head(a) # Head(b) THEN Head(a) < Head(b)
  ELSE SeqLess(Tail(a), Tail(b))

StrLess(s, t) == SeqLess(CharCodes(s), CharCodes(t))

\* [...trackNames] without the sort
SortNamesKept(names) == names

\* [...trackNames].sort(): each name goes to the place given by the number
\* of names that come before it, equal names keeping their order.  SubSeq
\* makes TLC compute the code units and the places once.
SortNames(names) ==
  LET n     == Len(names)
      codes == SubSeq([q \in 1..n |-> CharCodes(names[q])], 1, n)
      place == SubSeq([q \in 1..n |->
                         1 + Cardinality({p \in 1..n :
                                            \/ SeqLess(codes[p], codes[q])
                                            \/ codes[p] = codes[q] /\ p < q})],
                      1, n)
  IN  [r \in 1..n |-> names[CHOOSE q \in 1..n : place[q] = r]]

RECURSIVE JoinCodes(_, _)
\* the code units of names.join(sep)
JoinCodes(names, sep) ==
  IF names = <<>> THEN <<>>
  ELSE IF Len(names) = 1 THEN CharCodes(Head(names))
  ELSE LET half == Len(names) \div 2
       IN  JoinCodes(SubSeq(names, 1, half), sep) \o CharCodes(sep)
             \o JoinCodes(SubSeq(names, half + 1, Len(names)), sep)

(***************************************************************************)
(* 32-bit integers.  TLC's integers are 32 bits wide themselves, so a      *)
(* 32-bit word is kept as two 16-bit halves <<hi, lo>>.                    *)
(***************************************************************************)
Half == 65536

\* ((hash << 5) - hash) + char, then hash & hash: hash * 31 + char wrapped
\* to 32 bits
HashStep(h, char) ==
  LET lo == h[2] * 31 + char
      hi == h[1] * 31 + (lo \div Half)
  IN  <<hi % Half, lo % Half>>

RECURSIVE HashCodes(_, _)
\* the loop over hashInput, from hash h on; each step's result is bound to
\* its value before the next step is taken.  A long input is taken 24 code
\* units at a time, which keeps the evaluation shallow.
HashCodes(h, codes) ==
  IF codes = <<>> THEN h
  ELSE IF Len(codes) > 24
  THEN CHOOSE hash \in {HashCodes(next, rest) :
                          next \in {HashCodes(h, SubSeq(codes, 1, 24))},
                          rest \in {SubSeq(codes, 25, Len(codes))}} : TRUE
  ELSE CHOOSE hash \in {HashCodes(next, rest) :
                          next \in {HashStep(h, Head(codes))},
                          rest \in {Tail(codes)}} : TRUE

\* Math.abs of the signed 32-bit value of the word: the magnitude, again as
\* two halves (2^31 itself is <<32768, 0>>)
AbsWord(h) ==
  IF h[1] < 32768 THEN h
  ELSE IF h[2] = 0 THEN <<Half - h[1], 0>>
  ELSE <<Half - 1 - h[1], Half - h[2]>>

RECURSIVE ToString36(_)
\* Number.prototype.toString(36): the base-36 digits, most significant first
ToString36(w) ==
  LET r1  == w[1] % 36
      mid == r1 * Half + w[2]
      \* the quotient (w[1] \div 36) * 65536 + mid \div 36, in halves
      qlo == mid \div 36
      quo == <<(w[1] \div 36) + (qlo \div Half), qlo % Half>>
      dig == mid % 36
  IN  IF quo = <<0, 0>> THEN <<dig>>
      ELSE CHOOSE digits \in {ToString36(q) \o <<dig>> : q \in {quo}} : TRUE

\* generateFolderId(folderName, trackNames): "folder_" followed by the
\* base-36 digits of the absolute value of the hash
generateFolderId(folderName, trackNames) ==
  LET sortedTracks == JoinCodes(SortNames(trackNames), "|")
      hashInput    == CharCodes(folderName) \o CharCodes("::") \o sortedTracks
  IN  CHOOSE id \in {<<"folder_", ToString36(AbsWord(hash))>> :
                       hash \in {HashCodes(<<0, 0>>, hashInput)}} : TRUE


(***************************************************************************)
(* Bounds of the model.                                                    *)
(***************************************************************************)
\* requests the store holds unanswered at a time
MaxQueue == 3
\* trackPlay calls in one behaviour
MaxPlays == 3
\* trackQueue calls in one behaviour
MaxQueues == 2
\* direct saveState calls in one behaviour
MaxSaves == 3
\* updateRecentFolders calls in one behaviour
MaxRecent == 3
\* generateFolderId calls in one behaviour
MaxIds == 2
\* track names in the list given to generateFolderId
MaxNames == 3
\* store operations, each calling initDB, in one behaviour
MaxOps == 4
\* trackPlay, trackQueue and saveState calls in one behaviour of the
\* specification of the long recentlyPlayed list
MaxCalls == 3
\* user and audio events the component handles in one behaviour
MaxEvents == 3

(***************************************************************************)
(* Program constants.                                                      *)
(***************************************************************************)
MAX_RECENT_FOLDERS == 10
MAX_RECENTLY_PLAYED == 50
\* the delay debouncedSave gives setTimeout, in milliseconds
DEBOUNCE_MS == 1000
\* the clock of the model advances by half the delay
TickMs == DEBOUNCE_MS \div 2
\* volume 1, the volume being counted in tenths
FullVolume == 10

VARIABLES
  \* the local store: the three object stores of the database
  folders,        \* folderId -> FolderData (a function on the ids stored)
  settings,       \* <<>> or <<GlobalSettings>> under the key 'global'
  globalHistory,  \* <<>> or <<GlobalHistory>> under the key 'global'
  dbQueue,        \* the requests submitted and not yet answered, oldest first
  \* usePersistence
  saveTimeout,    \* saveTimeoutRef: <<>> or <<the armed timer>>
  \* the state of the MusicPlayer component
  folderName, files, currentIndex, currentTime, volume, isShuffle, isRepeat,
  trackStats,
  mounted,        \* the component is mounted
  renderPending,  \* a state update is waiting for its render
  hasSrc,         \* the audio element has been given a source
  fileReads,      \* File.text() reads not yet finished, oldest first
  alerted,        \* alert() has been shown
  nEvents,        \* user and audio events handled so far
  outcome,        \* how the last folder scan or import to finish ended
  \* what the environment has done so far
  nPlays,         \* trackPlay calls issued with a track name
  nQueues,        \* trackQueue calls issued with a track name
  nSaves,         \* saveState calls issued directly
  sinceSave,      \* milliseconds since the last direct saveState call
  rapid,          \* every direct saveState call came less than DEBOUNCE_MS
                  \* after the one before it
  lastSave,       \* <<>> or <<the state given to the last direct saveState>>
  nWrites,        \* saveFolderData writes of the debounce timer answered
  exported,       \* <<>> or <<the text of the file handleExport downloaded>>
  nRecent,        \* updateRecentFolders calls issued
  \* the database connection
  db,             \* the module's db: <<>> for null, or <<the handle>>
  opening,        \* initDB calls waiting for their openDB, oldest first
  nOpens,         \* openDB calls made
  worked,         \* the operations initDB has returned to, each with the
                  \* handle it was given
  idCalls         \* the generateFolderId calls made: arguments and result

storeVars  == <<folders, settings, globalHistory>>
playerVars == <<folderName, files, currentIndex, currentTime, volume,
                isShuffle, isRepeat, trackStats>>
compVars   == <<mounted, renderPending, hasSrc, fileReads, alerted,
                nEvents, outcome>>
saveHist   == <<nSaves, sinceSave, rapid, lastSave>>
callHist   == <<nPlays, nQueues>>
dbVars     == <<db, opening, nOpens, worked>>
sideVars   == <<exported, nRecent, dbVars, idCalls>>
vars == <<folders, settings, globalHistory, dbQueue, saveTimeout,
          folderName, files, currentIndex, currentTime, volume, isShuffle,
          isRepeat, trackStats, mounted, renderPending, hasSrc, fileReads,
          alerted, nEvents, outcome, nPlays, nQueues, nSaves, sinceSave, rapid,
          lastSave, nWrites, exported, nRecent, db, opening, nOpens, worked,
          idCalls>>

(***************************************************************************)
(* Helpers on files and records.                                           *)
(***************************************************************************)
\* an AudioFile as a scan makes it: not liked
Scanned(names) == [i \in 1..Len(names) |-> [name |-> names[i], liked |-> FALSE]]

\* files.map(f => f.name)
Names(fs) == [i \in 1..Len(fs) |-> fs[i].name]

\* files.filter(f => f.liked).map(f => f.name)
LikedNames(fs) == Names(SelectSeq(fs, LAMBDA f : f.liked))

Range(seq) == {seq[i] : i \in 1..Len(seq)}

\* seq.filter(x => x !== name)
Without(seq, name) == SelectSeq(seq, LAMBDA x : x # name)

\* seq.slice(0, n)
Slice(seq, n) == SubSeq(seq, 1, IF Len(seq) < n THEN Len(seq) ELSE n)

\* files[trackIndex]?.name, <<>> standing for undefined
NameAt(fs, trackIndex) ==
  IF trackIndex >= 0 /\ trackIndex < Len(fs) THEN <<fs[trackIndex + 1].name>>
  ELSE <<>>

(***************************************************************************)
(* The local store.  A request is answered when it reaches the head of     *)
(* the queue: the engine serves the requests of one database in the order  *)
(* they were submitted.                                                    *)
(***************************************************************************)
\* database.get(store, key), and what the caller does with the answer
GetReq(store, key, then) ==
  [op |-> "get", store |-> store, key |-> key, value |-> <<>>, then |-> then]

\* database.put(store, value, key), and what the caller does afterwards
PutReq(store, key, value, then) ==
  [op |-> "put", store |-> store, key |-> key, value |-> <<value>>,
   then |-> then]

\* loadFolderData(folderId): <<>> for undefined
loadFolderData(folderId) ==
  IF folderId \in DOMAIN folders THEN <<folders[folderId]>> ELSE <<>>

\* the folders store after saveFolderData(data): the record is put under its
\* keyPath folderId, replacing the one stored there
saveFolderData(data) == (data.folderId :> data) @@ folders

HeadIs(kind) == dbQueue # <<>> /\ Head(dbQueue).then.k = kind

Room == Len(dbQueue) < MaxQueue

(***************************************************************************)
(* usePersistence: the debounced save.                                     *)
(***************************************************************************)
\* the armed timers after debouncedSave(saveFn), saveFn writing folderData:
\* the timer saveTimeoutRef holds is cleared and a new one is armed
debouncedSave(timers, folderData) ==
  <<[folderData |-> folderData, age |-> 0]>>

\* the folderData saveState builds from its argument and the record it loaded
SavedFolderData(state, folderId, existingData) ==
  [folderId            |-> folderId,
   folderName          |-> state.folderName,
   lastPlayedTrackIndex |-> state.currentIndex,
   lastPlayedPosition  |-> state.currentTime,
   favorites           |-> LikedNames(state.files),
   volume              |-> state.volume,
   isShuffle           |-> state.isShuffle,
   isRepeat            |-> state.isRepeat,
   customPlaylists     |->
     IF existingData # <<>> THEN existingData[1].customPlaylists ELSE <<>>,
   recentlyPlayed      |->
     IF existingData # <<>> THEN existingData[1].recentlyPlayed ELSE <<>>,
   trackStats          |->
     IF existingData # <<>> THEN existingData[1].trackStats ELSE <<>>]

\* the request saveState(state) submits: loadFolderData(folderId), to go on
\* with the folderData and debouncedSave
SaveStateReq(state) ==
  LET folderId == generateFolderId(state.folderName, Names(state.files))
  IN  GetReq("folders", folderId,
             [k |-> "saveState", state |-> state, folderId |-> folderId])

\* persistence.saveState(state), called directly
saveState(state) ==
  /\ nSaves < MaxSaves
  /\ Room
  /\ dbQueue' = Append(dbQueue, SaveStateReq(state))
  /\ nSaves' = nSaves + 1
  /\ rapid' = (rapid /\ (nSaves = 0 \/ sinceSave < DEBOUNCE_MS))
  /\ sinceSave' = 0
  /\ lastSave' = <<state>>
  /\ UNCHANGED <<storeVars, saveTimeout, playerVars, compVars, callHist,
                 nWrites, sideVars>>

\* saveState after its await loadFolderData: the folderData is built and the
\* write is handed to debouncedSave
saveStateLoaded ==
  /\ HeadIs("saveState")
  /\ LET req == Head(dbQueue)
         folderData == SavedFolderData(req.then.state, req.then.folderId,
                                       loadFolderData(req.key))
     IN  saveTimeout' = debouncedSave(saveTimeout, folderData)
  /\ dbQueue' = Tail(dbQueue)
  /\ UNCHANGED <<storeVars, playerVars, compVars, callHist, saveHist,
                 nWrites, sideVars>>

\* the timer of debouncedSave elapses: saveFn calls saveFolderData
TimerFire ==
  \E i \in 1..Len(saveTimeout) :
    /\ saveTimeout[i].age >= DEBOUNCE_MS
    /\ dbQueue' = Append(dbQueue,
                    PutReq("folders", saveTimeout[i].folderData.folderId,
                           saveTimeout[i].folderData, [k |-> "saveFn"]))
    /\ saveTimeout' = SubSeq(saveTimeout, 1, i - 1)
                        \o SubSeq(saveTimeout, i + 1, Len(saveTimeout))
    /\ UNCHANGED <<storeVars, playerVars, compVars, callHist, saveHist,
                   nWrites, sideVars>>

\* saveFolderData of the timer's saveFn is answered: the record is stored
saveFnDone ==
  /\ HeadIs("saveFn")
  /\ folders' = saveFolderData(Head(dbQueue).value[1])
  /\ dbQueue' = Tail(dbQueue)
  /\ nWrites' = IF nWrites < nSaves THEN nWrites + 1 ELSE nWrites
  /\ UNCHANGED <<settings, globalHistory, saveTimeout, playerVars, compVars,
                 callHist, saveHist, sideVars>>

Older(age) == IF age + TickMs < DEBOUNCE_MS THEN age + TickMs ELSE DEBOUNCE_MS

\* TickMs milliseconds pass; a timer that is due fires before any more do
Tick ==
  /\ \A i \in 1..Len(saveTimeout) : saveTimeout[i].age < DEBOUNCE_MS
  /\ saveTimeout' = [i \in 1..Len(saveTimeout) |->
                       [saveTimeout[i] EXCEPT !.age = Older(@)]]
  /\ sinceSave' = IF nSaves > 0 THEN Older(sinceSave) ELSE sinceSave
  /\ UNCHANGED <<storeVars, dbQueue, playerVars, compVars, callHist, nSaves,
                 rapid, lastSave, nWrites, sideVars>>

(***************************************************************************)
(* usePersistence: trackPlay and trackQueue.                               *)
(***************************************************************************)
\* the FolderData trackPlay starts from when the folder has no record
NewFolderData(folderId, name) ==
  [folderId            |-> folderId,
   folderName          |-> name,
   lastPlayedTrackIndex |-> 0,
   lastPlayedPosition  |-> 0,
   favorites           |-> <<>>,
   volume              |-> FullVolume,
   isShuffle           |-> FALSE,
   isRepeat            |-> FALSE,
   customPlaylists     |-> <<>>,
   recentlyPlayed      |-> <<>>,
   trackStats          |-> <<>>]

NewTrackStats(trackName) ==
  [trackName |-> trackName, playCount |-> 0, queueCount |-> 0]

\* stats with an entry for trackName, a new one when it has none
EnsureStats(stats, trackName) ==
  IF trackName \in DOMAIN stats THEN stats
  ELSE (trackName :> NewTrackStats(trackName)) @@ stats

\* the mutant of CountPlay: the count starts again from the new entry
CountPlayFromNew(stats, trackName) ==
  (trackName :> [NewTrackStats(trackName) EXCEPT !.playCount = 1]) @@ stats

\* trackStats after trackPlay counted a play of trackName
CountPlay(stats, trackName) ==
  [EnsureStats(stats, trackName) EXCEPT ![trackName].playCount = @ + 1]

\* trackStats after trackQueue counted a queueing of trackName
CountQueue(stats, trackName) ==
  [EnsureStats(stats, trackName) EXCEPT ![trackName].queueCount = @ + 1]

\* recentlyPlayed after a play of trackName, were the list not cut
PushRecentUncut(recentlyPlayed, trackName) ==
  <<trackName>> \o Without(recentlyPlayed, trackName)

\* recentlyPlayed after a play of trackName
PushRecent(recentlyPlayed, trackName) ==
  Slice(<<trackName>> \o Without(recentlyPlayed, trackName),
        MAX_RECENTLY_PLAYED)

\* the folderData trackPlay saves, from the record it loaded
PlayedFolderData(loaded, folderId, name, trackName) ==
  LET folderData == IF loaded # <<>> THEN loaded[1]
                    ELSE NewFolderData(folderId, name)
  IN  [folderData EXCEPT
         !.trackStats = CountPlay(@, trackName),
         !.recentlyPlayed = PushRecent(@, trackName)]

\* the key of a track in GlobalHistory.tracks: `${folderId}_${trackName}`
TrackId(folderId, trackName) == <<folderId, "_", trackName>>

NewGlobalHistory == [tracks |-> <<>>, totalPlays |-> 0]

NewGlobalTrack(folderId, name, trackName) ==
  [trackName |-> trackName, folderId |-> folderId, folderName |-> name,
   playCount |-> 0, totalPlayTime |-> 0]

\* the mutant of PlayedGlobalHistory: the play time is not added
PlayedGlobalHistoryNoTime(loaded, folderId, name, trackName, playTime) ==
  LET globalHistory0 == IF loaded # <<>> THEN loaded[1] ELSE NewGlobalHistory
      trackId == TrackId(folderId, trackName)
      tracks0 == IF trackId \in DOMAIN globalHistory0.tracks
                 THEN globalHistory0.tracks
                 ELSE (trackId :> NewGlobalTrack(folderId, name, trackName))
                        @@ globalHistory0.tracks
  IN  [tracks     |-> [tracks0 EXCEPT ![trackId].playCount = @ + 1],
       totalPlays |-> globalHistory0.totalPlays + 1]

\* the globalHistory trackPlay saves, from the record it loaded
PlayedGlobalHistory(loaded, folderId, name, trackName, playTime) ==
  LET globalHistory0 == IF loaded # <<>> THEN loaded[1] ELSE NewGlobalHistory
      trackId == TrackId(folderId, trackName)
      tracks0 == IF trackId \in DOMAIN globalHistory0.tracks
                 THEN globalHistory0.tracks
                 ELSE (trackId :> NewGlobalTrack(folderId, name, trackName))
                        @@ globalHistory0.tracks
  IN  [tracks     |-> [tracks0 EXCEPT ![trackId].playCount = @ + 1,
                                      ![trackId].totalPlayTime = @ + playTime],
       totalPlays |-> globalHistory0.totalPlays + 1]

\* the request trackPlay(name, fs, trackIndex, playTime) submits first:
\* loadFolderData(folderId).  caller is what awaits the call.
TrackPlayReq(name, fs, trackIndex, playTime, caller) ==
  LET folderId == generateFolderId(name, Names(fs))
  IN  GetReq("folders", folderId,
             [k |-> "trackPlay", folderId |-> folderId, folderName |-> name,
              trackName |-> NameAt(fs, trackIndex)[1],
              playTime |-> playTime, caller |-> caller])

\* persistence.trackPlay(name, fs, trackIndex, playTime), called directly;
\* it returns at once when files[trackIndex] has no name
trackPlay(name, fs, trackIndex, playTime) ==
  /\ nPlays < MaxPlays
  /\ Room
  /\ IF NameAt(fs, trackIndex) = <<>>
     THEN UNCHANGED <<dbQueue, nPlays>>
     ELSE /\ dbQueue' = Append(dbQueue,
                 TrackPlayReq(name, fs, trackIndex, playTime, [by |-> "api"]))
          /\ nPlays' = nPlays + 1
  /\ UNCHANGED <<storeVars, saveTimeout, playerVars, compVars, nQueues,
                 saveHist, nWrites, sideVars>>

\* trackPlay after await loadFolderData: the stats and recentlyPlayed are
\* updated and saveFolderData is called
trackPlayLoaded ==
  /\ HeadIs("trackPlay")
  /\ LET t == Head(dbQueue).then
         folderData == PlayedFolderData(loadFolderData(t.folderId),
                                        t.folderId, t.folderName, t.trackName)
     IN  dbQueue' = Append(Tail(dbQueue),
            PutReq("folders", t.folderId, folderData,
                   [t EXCEPT !.k = "trackPlay.saved"]))
  /\ UNCHANGED <<storeVars, saveTimeout, playerVars, compVars, callHist,
                 saveHist, nWrites, sideVars>>

\* trackPlay after await saveFolderData: the record is stored, and
\* loadGlobalHistory is called
trackPlaySaved ==
  /\ HeadIs("trackPlay.saved")
  /\ LET req == Head(dbQueue)
     IN  /\ folders' = saveFolderData(req.value[1])
         /\ dbQueue' = Append(Tail(dbQueue),
               GetReq("globalHistory", "global",
                      [k |-> "trackPlay.global", folderId |-> req.then.folderId,
                       folderName |-> req.then.folderName,
                       trackName |-> req.then.trackName,
                       playTime |-> req.then.playTime,
                       caller |-> req.then.caller,
                       folderData |-> req.value[1]]))
  /\ UNCHANGED <<settings, globalHistory, saveTimeout, playerVars, compVars,
                 callHist, saveHist, nWrites, sideVars>>

\* trackPlay after await loadGlobalHistory: the track's entry and totalPlays
\* are updated and saveGlobalHistory is called
trackPlayGlobalLoaded ==
  /\ HeadIs("trackPlay.global")
  /\ LET t == Head(dbQueue).then
         history == PlayedGlobalHistory(globalHistory, t.folderId,
                       t.folderName, t.trackName, t.playTime)
     IN  dbQueue' = Append(Tail(dbQueue),
            PutReq("globalHistory", "global", history,
                   [t EXCEPT !.k = "trackPlay.done"]))
  /\ UNCHANGED <<storeVars, saveTimeout, playerVars, compVars, callHist,
                 saveHist, nWrites, sideVars>>

\* the request getTrackStats(name, fs) submits: loadFolderData(folderId)
GetTrackStatsReq(name, fs, then) ==
  GetReq("folders", generateFolderId(name, Names(fs)), then)

\* trackPlay after await saveGlobalHistory: the history is stored and the call
\* returns.  handleEnded then goes on to getTrackStats.
trackPlayDone ==
  /\ HeadIs("trackPlay.done")
  /\ LET req == Head(dbQueue)
         caller == req.then.caller
     IN  /\ globalHistory' = <<req.value[1]>>
         /\ dbQueue' =
              IF caller.by = "handleEnded"
              THEN Append(Tail(dbQueue),
                     GetTrackStatsReq(caller.folderName, caller.files,
                        [k |-> "handleEnded.stats", caller |-> caller]))
              ELSE Tail(dbQueue)
  /\ UNCHANGED <<folders, settings, saveTimeout, playerVars, compVars, callHist,
                 saveHist, nWrites, sideVars>>

\* persistence.trackQueue(name, fs, trackIndex), called directly; it returns
\* at once when files[trackIndex] has no name
trackQueue(name, fs, trackIndex) ==
  /\ nQueues < MaxQueues
  /\ Room
  /\ IF NameAt(fs, trackIndex) = <<>>
     THEN UNCHANGED <<dbQueue, nQueues>>
     ELSE LET folderId == generateFolderId(name, Names(fs))
          IN  /\ dbQueue' = Append(dbQueue,
                   GetReq("folders", folderId,
                          [k |-> "trackQueue", folderId |-> folderId,
                           trackName |-> NameAt(fs, trackIndex)[1]]))
              /\ nQueues' = nQueues + 1
  /\ UNCHANGED <<storeVars, saveTimeout, playerVars, compVars, nPlays,
                 saveHist, nWrites, sideVars>>

\* the mutant of trackQueueLoaded: without a record a new one is started,
\* as trackPlay does
trackQueueLoadedOrNew ==
  /\ HeadIs("trackQueue")
  /\ LET t == Head(dbQueue).then
         loaded == loadFolderData(t.folderId)
         folderData == IF loaded # <<>> THEN loaded[1]
                       ELSE NewFolderData(t.folderId, "")
     IN  dbQueue' =
           Append(Tail(dbQueue),
                  PutReq("folders", t.folderId,
                         [folderData EXCEPT
                            !.trackStats = CountQueue(@, t.trackName)],
                         [k |-> "trackQueue.saved"]))
  /\ UNCHANGED <<storeVars, saveTimeout, playerVars, compVars, callHist,
                 saveHist, nWrites, sideVars>>

\* trackQueue after await loadFolderData: without a record it returns, with
\* one it counts the queueing and calls saveFolderData
trackQueueLoaded ==
  /\ HeadIs("trackQueue")
  /\ LET t == Head(dbQueue).then
         loaded == loadFolderData(t.folderId)
     IN  dbQueue' =
           IF loaded = <<>> THEN Tail(dbQueue)
           ELSE Append(Tail(dbQueue),
                  PutReq("folders", t.folderId,
                         [loaded[1] EXCEPT
                            !.trackStats = CountQueue(@, t.trackName)],
                         [k |-> "trackQueue.saved"]))
  /\ UNCHANGED <<storeVars, saveTimeout, playerVars, compVars, callHist,
                 saveHist, nWrites, sideVars>>

\* trackQueue after await saveFolderData: the record is stored
trackQueueSaved ==
  /\ HeadIs("trackQueue.saved")
  /\ folders' = saveFolderData(Head(dbQueue).value[1])
  /\ dbQueue' = Tail(dbQueue)
  /\ UNCHANGED <<settings, globalHistory, saveTimeout, playerVars, compVars,
                 callHist, saveHist, nWrites, sideVars>>

(***************************************************************************)
(* The export document and its import.  A file's text is a record:         *)
(* readable tells whether File.text() resolves, syntax whether JSON.parse  *)
(* accepts it, value what it parses to; a field that a document lacks is   *)
(* a field its record lacks.                                               *)
(***************************************************************************)
Has(r, field) == field \in DOMAIN r

\* the mutant of ValidFavorites: the favorites are not filtered
ValidFavoritesAll(favorites, currentFiles) == favorites

\* data.folderData.favorites.filter(name => currentTrackNames.has(name))
ValidFavorites(favorites, currentFiles) ==
  SelectSeq(favorites, LAMBDA name : name \in Range(Names(currentFiles)))

\* validTrackIndex: an index below 0 or not below the number of files is 0
ValidTrackIndex(index, currentFiles) ==
  IF index < 0 \/ index >= Len(currentFiles) THEN 0 ELSE index

\* validTrackStats: the entries of the tracks that are in the folder
ValidTrackStats(stats, currentFiles) ==
  [n \in DOMAIN stats \cap Range(Names(currentFiles)) |-> stats[n]]

\* the mutant of importFolderData: the document is not validated
importFolderDataUnchecked(jsonContent, currentFiles) ==
  IF ~jsonContent.syntax THEN <<>>
  ELSE LET data == jsonContent.value
           folderData == IF Has(data, "folderData") THEN data.folderData
                         ELSE <<>>
       IN  <<[folderData |-> folderData] @@
             (IF Has(data, "globalHistory")
              THEN [globalHistory |-> data.globalHistory] ELSE <<>>)>>

\* importFolderData(jsonContent, currentFiles): <<>> for null.  A text that
\* does not parse, and a folderData without favorites, throw inside the try
\* and end in its catch.
importFolderData(jsonContent, currentFiles) ==
  IF ~jsonContent.syntax THEN <<>>
  ELSE LET data == jsonContent.value
       IN  IF ~Has(data, "version") \/ ~Has(data, "folderData") THEN <<>>
           ELSE IF ~Has(data.folderData, "favorites") THEN <<>>
           ELSE LET fd == data.folderData
                    pruned ==
                      [favorites |-> ValidFavorites(fd.favorites, currentFiles),
                       trackStats |->
                         IF Has(fd, "trackStats")
                         THEN ValidTrackStats(fd.trackStats, currentFiles)
                         ELSE <<>>] @@
                      (IF Has(fd, "lastPlayedTrackIndex")
                       THEN [lastPlayedTrackIndex |->
                               ValidTrackIndex(fd.lastPlayedTrackIndex,
                                               currentFiles)]
                       ELSE <<>>)
                IN  <<[folderData |-> pruned @@ fd] @@
                      (IF Has(data, "globalHistory")
                       THEN [globalHistory |-> data.globalHistory]
                       ELSE <<>>)>>

\* loadFromJsonFile's result for the text of .elevenmusic.json: a read that
\* fails ends in its catch
LoadedFromJson(text, audioFiles) ==
  IF ~text.readable THEN <<>> ELSE importFolderData(text, audioFiles)

(***************************************************************************)
(* MusicPlayer: opening a folder and importing.  A state update made after *)
(* the component was unmounted does nothing.                               *)
(***************************************************************************)
\* audioFiles.map(file => ({...file, liked: likedNames.has(file.name)}))
WithLikes(audioFiles, favorites) ==
  [i \in 1..Len(audioFiles) |->
     [audioFiles[i] EXCEPT !.liked = audioFiles[i].name \in Range(favorites)]]

\* applyPersistedData(data, audioFiles)
applyPersistedData(data, audioFiles) ==
  IF ~mounted THEN UNCHANGED <<files, trackStats, currentIndex, volume,
                               isShuffle, isRepeat, renderPending>>
  ELSE
  /\ files' = WithLikes(audioFiles,
                 IF Has(data, "favorites") THEN data.favorites ELSE <<>>)
  /\ trackStats' = IF Has(data, "trackStats") THEN data.trackStats
                   ELSE trackStats
  /\ currentIndex' =
       IF Has(data, "lastPlayedTrackIndex") /\ data.lastPlayedTrackIndex >= 0
       THEN data.lastPlayedTrackIndex
       ELSE IF Len(audioFiles) > 0 THEN 0 ELSE currentIndex
  /\ volume' = IF Has(data, "volume") THEN data.volume ELSE volume
  /\ isShuffle' = IF Has(data, "isShuffle") THEN data.isShuffle ELSE isShuffle
  /\ isRepeat' = IF Has(data, "isRepeat") THEN data.isRepeat ELSE isRepeat
  /\ renderPending' = TRUE

\* the request loadState(name, audioFiles) submits: loadFolderData(folderId)
LoadStateReq(name, audioFiles) ==
  GetReq("folders", generateFolderId(name, Names(audioFiles)),
         [k |-> "loadState", files |-> audioFiles])

\* the mutant of ApplyImportedDataReq: the plays of the stored history are
\* added to the imported one
ApplyImportedDataAddedReq(data) ==
  PutReq("globalHistory", "global",
         [data.globalHistory EXCEPT
            !.totalPlays = @ + (IF globalHistory = <<>> THEN 0
                                ELSE globalHistory[1].totalPlays)],
         [k |-> "applyImportedData"])

\* the request applyImportedData(data) submits: saveGlobalHistory
ApplyImportedDataReq(data) ==
  PutReq("globalHistory", "global", data.globalHistory,
         [k |-> "applyImportedData"])

\* a folder scan has begun and not yet applied its starting state
Scanning ==
  \/ fileReads # <<>> /\ Head(fileReads).k = "loadFromJsonFile"
  \/ \E i \in 1..Len(dbQueue) : dbQueue[i].then.k = "loadState"

\* the user picks a folder, the scan of the folder picked before being
\* over: setFolderName, the audio files are listed, and .elevenmusic.json is
\* read when the folder has one, else loadState is called
handleFolderSelect(scan) ==
  /\ mounted /\ ~renderPending /\ nEvents < MaxEvents
  /\ ~Scanning
  /\ fileReads = <<>> /\ Room
  /\ nEvents' = nEvents + 1
  /\ folderName' = scan.folderName
  /\ renderPending' = TRUE
  /\ IF scan.json # <<>>
     THEN /\ fileReads' = <<[k |-> "loadFromJsonFile", text |-> scan.json[1],
                             folderName |-> scan.folderName,
                             files |-> Scanned(scan.names)]>>
          /\ UNCHANGED dbQueue
     ELSE /\ dbQueue' = Append(dbQueue,
                 LoadStateReq(scan.folderName, Scanned(scan.names)))
          /\ UNCHANGED fileReads
  /\ UNCHANGED <<storeVars, saveTimeout, files, currentIndex, currentTime,
                 volume, isShuffle, isRepeat, trackStats, mounted, hasSrc,
                 alerted, callHist, saveHist, nWrites, sideVars,
                 outcome>>

\* handleFolderSelect after await loadFromJsonFile: an accepted document is
\* applied, and its globalHistory stored; otherwise loadState is called
loadFromJsonFileRead ==
  /\ fileReads # <<>> /\ Head(fileReads).k = "loadFromJsonFile"
  /\ LET r == Head(fileReads)
         jsonData == LoadedFromJson(r.text, r.files)
     IN  IF jsonData # <<>>
         THEN /\ applyPersistedData(jsonData[1].folderData, r.files)
              /\ outcome' = "scan.document"
              /\ dbQueue' = IF Has(jsonData[1], "globalHistory")
                            THEN Append(dbQueue,
                                        ApplyImportedDataReq(jsonData[1]))
                            ELSE dbQueue
         ELSE /\ dbQueue' = Append(dbQueue,
                               LoadStateReq(r.folderName, r.files))
              /\ UNCHANGED <<files, trackStats, currentIndex, volume,
                             isShuffle, isRepeat, renderPending, outcome>>
  /\ fileReads' = Tail(fileReads)
  /\ UNCHANGED <<storeVars, saveTimeout, folderName, currentTime, mounted,
                 hasSrc, alerted, nEvents, callHist, saveHist, nWrites, sideVars>>

\* loadState's result for the record loaded: an index not below the number of
\* files becomes 0
LoadedState(loaded, audioFiles) ==
  IF loaded = <<>> THEN <<>>
  ELSE IF loaded[1].lastPlayedTrackIndex >= Len(audioFiles)
       THEN <<[loaded[1] EXCEPT !.lastPlayedTrackIndex = 0]>>
       ELSE loaded

\* handleFolderSelect after await loadState: the stored record is applied, or
\* without one the files are set as scanned
loadStateLoaded ==
  /\ HeadIs("loadState")
  /\ LET req == Head(dbQueue)
         dbData == LoadedState(loadFolderData(req.key), req.then.files)
     IN  /\ outcome' = IF dbData # <<>> THEN "scan.record"
                        ELSE "scan.defaults"
         /\ IF dbData # <<>>
            THEN applyPersistedData(dbData[1], req.then.files)
            ELSE IF ~mounted
                 THEN UNCHANGED <<files, trackStats, currentIndex, volume,
                                  isShuffle, isRepeat, renderPending>>
                 ELSE /\ files' = req.then.files
                      /\ trackStats' = <<>>
                      /\ currentIndex' = IF Len(req.then.files) > 0 THEN 0
                                         ELSE currentIndex
                      /\ renderPending' = TRUE
                      /\ UNCHANGED <<volume, isShuffle, isRepeat>>
  /\ dbQueue' = Tail(dbQueue)
  /\ UNCHANGED <<storeVars, saveTimeout, folderName, currentTime, mounted,
                 hasSrc, fileReads, alerted, nEvents, callHist, saveHist,
                 nWrites, sideVars>>

\* saveGlobalHistory of applyImportedData is answered
applyImportedDataDone ==
  /\ HeadIs("applyImportedData")
  /\ globalHistory' = <<Head(dbQueue).value[1]>>
  /\ dbQueue' = Tail(dbQueue)
  /\ UNCHANGED <<folders, settings, saveTimeout, playerVars, compVars,
                 callHist, saveHist, nWrites, sideVars>>

\* the user picks a file to import: its text is read
handleImport(text) ==
  /\ mounted /\ ~renderPending /\ nEvents < MaxEvents
  /\ Len(files) > 0
  /\ fileReads = <<>>
  /\ nEvents' = nEvents + 1
  /\ fileReads' = <<[k |-> "handleImport", text |-> text, files |-> files]>>
  /\ UNCHANGED <<storeVars, dbQueue, saveTimeout, playerVars, mounted,
                 renderPending, hasSrc, alerted, callHist, saveHist, nWrites, sideVars,
                 outcome>>

\* handleImport after await file.text(): a read that fails is caught and
\* alerted; an accepted document is applied to the files of the handler's
\* render, and its globalHistory stored
handleImportRead ==
  /\ fileReads # <<>> /\ Head(fileReads).k = "handleImport"
  /\ LET r == Head(fileReads)
         data == IF r.text.readable THEN importFolderData(r.text, r.files)
                 ELSE <<>>
     IN  /\ alerted' = (alerted \/ ~r.text.readable)
         /\ outcome' = IF ~r.text.readable THEN "import.failed"
                        ELSE IF data # <<>> THEN "import.applied"
                        ELSE "import.rejected"
         /\ IF data # <<>>
            THEN /\ applyPersistedData(data[1].folderData, r.files)
                 /\ dbQueue' = IF Has(data[1], "globalHistory")
                               THEN Append(dbQueue,
                                           ApplyImportedDataReq(data[1]))
                               ELSE dbQueue
            ELSE UNCHANGED <<dbQueue, files, trackStats, currentIndex, volume,
                             isShuffle, isRepeat, renderPending>>
  /\ fileReads' = Tail(fileReads)
  /\ UNCHANGED <<storeVars, saveTimeout, folderName, currentTime, mounted,
                 hasSrc, nEvents, callHist, saveHist, nWrites, sideVars>>

(***************************************************************************)
(* MusicPlayer: the controls, the audio element's events, the effects.     *)
(***************************************************************************)
\* toggleLike(index) on a row of the playlist
toggleLike(index) ==
  /\ mounted /\ ~renderPending /\ nEvents < MaxEvents
  /\ index >= 0 /\ index < Len(files)
  /\ nEvents' = nEvents + 1
  /\ files' = [files EXCEPT ![index + 1].liked = ~@]
  /\ renderPending' = TRUE
  /\ UNCHANGED <<storeVars, dbQueue, saveTimeout, folderName, currentIndex,
                 currentTime, volume, isShuffle, isRepeat, trackStats,
                 mounted, hasSrc, fileReads, alerted, callHist, saveHist,
                 nWrites, sideVars,
                 outcome>>

\* the shuffle button: setIsShuffle(!isShuffle)
toggleShuffle ==
  /\ mounted /\ ~renderPending /\ nEvents < MaxEvents
  /\ nEvents' = nEvents + 1
  /\ isShuffle' = ~isShuffle
  /\ renderPending' = TRUE
  /\ UNCHANGED <<storeVars, dbQueue, saveTimeout, folderName, files,
                 currentIndex, currentTime, volume, isRepeat, trackStats,
                 mounted, hasSrc, fileReads, alerted, callHist, saveHist,
                 nWrites, sideVars,
                 outcome>>

\* the repeat button: setIsRepeat(!isRepeat)
toggleRepeat ==
  /\ mounted /\ ~renderPending /\ nEvents < MaxEvents
  /\ nEvents' = nEvents + 1
  /\ isRepeat' = ~isRepeat
  /\ renderPending' = TRUE
  /\ UNCHANGED <<storeVars, dbQueue, saveTimeout, folderName, files,
                 currentIndex, currentTime, volume, isShuffle, trackStats,
                 mounted, hasSrc, fileReads, alerted, callHist, saveHist,
                 nWrites, sideVars,
                 outcome>>

\* handleVolumeChange([newVolume]) to a volume other than the current one
handleVolumeChange(newVolume) ==
  /\ mounted /\ ~renderPending /\ nEvents < MaxEvents
  /\ newVolume # volume
  /\ nEvents' = nEvents + 1
  /\ volume' = newVolume
  /\ renderPending' = TRUE
  /\ UNCHANGED <<storeVars, dbQueue, saveTimeout, folderName, files,
                 currentIndex, currentTime, isShuffle, isRepeat, trackStats,
                 mounted, hasSrc, fileReads, alerted, callHist, saveHist,
                 nWrites, sideVars,
                 outcome>>

\* a click on a row of the playlist: playFile(index)
playFile(index) ==
  /\ mounted /\ ~renderPending /\ nEvents < MaxEvents
  /\ index >= 0 /\ index < Len(files)
  /\ nEvents' = nEvents + 1
  /\ currentIndex' = index
  /\ hasSrc' = TRUE
  /\ renderPending' = TRUE
  /\ UNCHANGED <<storeVars, dbQueue, saveTimeout, folderName, files,
                 currentTime, volume, isShuffle, isRepeat, trackStats,
                 mounted, fileReads, alerted, callHist, saveHist, nWrites, sideVars,
                 outcome>>

\* the audio element's timeupdate: setCurrentTime(audio.currentTime)
handleTimeUpdate(time) ==
  /\ mounted /\ ~renderPending /\ hasSrc
  /\ time # currentTime
  /\ currentTime' = time
  /\ renderPending' = TRUE
  /\ UNCHANGED <<storeVars, dbQueue, saveTimeout, folderName, files,
                 currentIndex, volume, isShuffle, isRepeat, trackStats,
                 mounted, hasSrc, fileReads, alerted, nEvents, callHist,
                 saveHist, nWrites, sideVars,
                 outcome>>

\* the end of handleEnded, with the values c of the handler's render: the
\* track is restarted under repeat, else playNext() picks the next index,
\* any index under shuffle, and playFile sets it.  Without the audio element
\* nothing is done.  updated tells whether the handler has set state before.
EndedTail(c, updated) ==
  IF c.isRepeat \/ Len(c.files) = 0 \/ ~mounted
  THEN /\ UNCHANGED <<currentIndex, hasSrc>>
       /\ renderPending' = (renderPending \/ updated)
  ELSE \E nextIndex \in 0..(Len(c.files) - 1) :
         /\ c.isShuffle \/ nextIndex = (c.currentIndex + 1) % Len(c.files)
         /\ currentIndex' = nextIndex
         /\ hasSrc' = TRUE
         /\ renderPending' = TRUE

\* the audio element's ended: with a folder open and a current track,
\* trackPlay is called and awaited; otherwise the handler goes straight on
handleEnded(playTime) ==
  /\ mounted /\ ~renderPending /\ hasSrc /\ nEvents < MaxEvents
  /\ nPlays < MaxPlays /\ Room
  /\ nEvents' = nEvents + 1
  /\ LET c == [by |-> "handleEnded", folderName |-> folderName,
               files |-> files, currentIndex |-> currentIndex,
               isShuffle |-> isShuffle, isRepeat |-> isRepeat]
     IN  IF folderName # "" /\ Len(files) > 0 /\ currentIndex >= 0
         THEN /\ IF NameAt(files, currentIndex) = <<>>
                 THEN /\ dbQueue' = Append(dbQueue,
                           GetTrackStatsReq(folderName, files,
                              [k |-> "handleEnded.stats", caller |-> c]))
                      /\ UNCHANGED nPlays
                 ELSE /\ dbQueue' = Append(dbQueue,
                           TrackPlayReq(folderName, files, currentIndex,
                                        playTime, c))
                      /\ nPlays' = nPlays + 1
              /\ UNCHANGED <<currentIndex, hasSrc, renderPending>>
         ELSE /\ EndedTail(c, FALSE)
              /\ UNCHANGED <<dbQueue, nPlays>>
  /\ UNCHANGED <<storeVars, saveTimeout, folderName, files, currentTime,
                 volume, isShuffle, isRepeat, trackStats, mounted, fileReads,
                 alerted, nQueues, saveHist, nWrites, sideVars,
                 outcome>>

\* the trackStats getTrackStats returns for the record loaded
StatsOf(loaded) == IF loaded = <<>> THEN <<>> ELSE loaded[1].trackStats

\* handleEnded after await getTrackStats: setTrackStats, then the end of the
\* handler
handleEndedStats ==
  /\ HeadIs("handleEnded.stats")
  /\ LET req == Head(dbQueue)
     IN  /\ trackStats' = IF mounted THEN StatsOf(loadFolderData(req.key))
                          ELSE trackStats
         /\ EndedTail(req.then.caller, mounted)
  /\ dbQueue' = Tail(dbQueue)
  /\ UNCHANGED <<storeVars, saveTimeout, folderName, files, currentTime,
                 volume, isShuffle, isRepeat, mounted, fileReads, alerted,
                 nEvents, callHist, saveHist, nWrites, sideVars,
                 outcome>>

\* the state the save effect hands to saveState
CurrentState ==
  [folderName |-> folderName, files |-> files, currentIndex |-> currentIndex,
   currentTime |-> currentTime, volume |-> volume, isShuffle |-> isShuffle,
   isRepeat |-> isRepeat]

\* a render and its effects.  usePersistence returns a new object at every
\* render, so both effects run after every render: with a folder open that
\* has files, saveState is called with the state rendered and loadTrackStats
\* calls getTrackStats.
Render ==
  /\ mounted /\ renderPending
  /\ Len(dbQueue) + 2 <= MaxQueue
  /\ renderPending' = FALSE
  /\ dbQueue' =
       IF folderName = "" \/ Len(files) = 0 THEN dbQueue
       ELSE dbQueue \o
              <<SaveStateReq(CurrentState),
                GetTrackStatsReq(folderName, files, [k |-> "loadTrackStats"])>>
  /\ UNCHANGED <<storeVars, saveTimeout, playerVars, mounted, hasSrc,
                 fileReads, alerted, nEvents, callHist, saveHist, nWrites, sideVars,
                 outcome>>

\* loadTrackStats after await getTrackStats: setTrackStats(stats), stats
\* being a new object every time
loadTrackStatsLoaded ==
  /\ HeadIs("loadTrackStats")
  /\ trackStats' = IF mounted THEN StatsOf(loadFolderData(Head(dbQueue).key))
                   ELSE trackStats
  /\ renderPending' = (renderPending \/ mounted)
  /\ dbQueue' = Tail(dbQueue)
  /\ UNCHANGED <<storeVars, saveTimeout, folderName, files, currentIndex,
                 currentTime, volume, isShuffle, isRepeat, mounted, hasSrc,
                 fileReads, alerted, nEvents, callHist, saveHist, nWrites, sideVars,
                 outcome>>

\* the component is unmounted: the cleanup of usePersistence clears the
\* timer saveTimeoutRef holds
Unmount ==
  /\ mounted
  /\ mounted' = FALSE
  /\ renderPending' = FALSE
  /\ saveTimeout' = <<>>
  /\ UNCHANGED <<storeVars, dbQueue, playerVars, hasSrc, fileReads, alerted,
                 nEvents, callHist, saveHist, nWrites, sideVars,
                 outcome>>

(***************************************************************************)
(* The inputs of the model.                                                *)
(***************************************************************************)
\* the folders a caller names: a folder name and the names of its tracks
Folders ==
  {[folderName |-> "Album", names |-> <<"A", "B">>],
   [folderName |-> "Live",  names |-> <<"C">>]}
PlayTimes == {60, 120}
Positions == {0, 60}

\* the states a caller hands to saveState
SaveStates ==
  [folderName : {"Album"}, files : {Scanned(<<"A", "B">>)},
   currentIndex : {0, 1}, currentTime : Positions, volume : {FullVolume},
   isShuffle : {FALSE}, isRepeat : BOOLEAN]

AlbumId == generateFolderId("Album", <<"A", "B">>)
Volumes == {FullVolume \div 2, FullVolume}

\* the folderData and globalHistory of an export document of Album
DocFolderData ==
  [folderId            |-> AlbumId,
   folderName          |-> "Album",
   lastPlayedTrackIndex |-> 1,
   lastPlayedPosition  |-> 60,
   favorites           |-> <<"B">>,
   volume              |-> FullVolume \div 2,
   isShuffle           |-> TRUE,
   isRepeat            |-> TRUE,
   customPlaylists     |-> <<>>,
   recentlyPlayed      |-> <<"B">>,
   trackStats          |->
     ("B" :> [NewTrackStats("B") EXCEPT !.playCount = 2])]
DocHistory ==
  [tracks |-> (TrackId(AlbumId, "B") :>
                 [NewGlobalTrack(AlbumId, "Album", "B") EXCEPT
                    !.playCount = 2, !.totalPlayTime = 120]),
   totalPlays |-> 2]

\* the text of a file: one that cannot be read, one that is not JSON, and
\* the JSON text of value
Unreadable == [readable |-> FALSE]
NotJson == [readable |-> TRUE, syntax |-> FALSE]
Json(value) == [readable |-> TRUE, syntax |-> TRUE, value |-> value]

ExportDoc ==
  Json([version |-> "1.0.0", folderData |-> DocFolderData,
        globalHistory |-> DocHistory])
\* texts importFolderData rejects
RejectedTexts ==
  {NotJson,
   Json([folderData |-> DocFolderData, globalHistory |-> DocHistory]),
   Json([version |-> "1.0.0", globalHistory |-> DocHistory])}
Texts == {ExportDoc, Unreadable} \cup RejectedTexts

\* the folders the user picks: the folder's name, the names of its audio
\* files, and <<>> or <<the text of its .elevenmusic.json>>
Scans ==
  {[folderName |-> "Album", names |-> <<"A", "B">>, json |-> <<>>],
   [folderName |-> "Album", names |-> <<"A", "B">>, json |-> <<ExportDoc>>],
   [folderName |-> "Album", names |-> <<"A", "B">>, json |-> <<NotJson>>],
   [folderName |-> "Live",  names |-> <<"C">>, json |-> <<>>],
   [folderName |-> "Live",  names |-> <<>>, json |-> <<>>],
   [folderName |-> "Live",  names |-> <<>>, json |-> <<ExportDoc>>]}

\* the optional fields of a document's folderData: each is present with one
\* of a few values, or absent
DocFavorites == {<<>>, <<"A">>, <<"C", "B">>, <<"B", "C", "A", "B">>}
DocTrackStats ==
  {[n \in names |-> [NewTrackStats(n) EXCEPT !.playCount = 2]] :
     names \in {{}, {"A"}, {"B", "C"}, {"A", "B", "C"}}}
DocIndexes == {-1, 0, 1, 5}
OptionalFields ==
  {fav @@ st @@ ix :
     fav \in {<<>>} \cup {[favorites |-> f] : f \in DocFavorites},
     st  \in {<<>>} \cup {[trackStats |-> t] : t \in DocTrackStats},
     ix  \in {<<>>} \cup {[lastPlayedTrackIndex |-> i] : i \in DocIndexes}}

\* the fields every folderData of the model's documents has
DocBase ==
  [folderId        |-> AlbumId,
   folderName      |-> "Album",
   volume          |-> FullVolume \div 2,
   isShuffle       |-> TRUE,
   isRepeat        |-> TRUE]

\* documents with version and folderData, with or without a globalHistory
Docs ==
  {Json([version |-> "1.0.0", folderData |-> opt @@ DocBase] @@ gh) :
     opt \in OptionalFields,
     gh \in {<<>>, [globalHistory |-> DocHistory]}}

\* the folders picked that carry a .elevenmusic.json: the folder is Album
\* with its two tracks, with one of them, or with no audio file
DocScans ==
  {[folderName |-> "Album", names |-> names, json |-> <<text>>] :
     names \in {<<"A", "B">>, <<"B">>, <<>>},
     text \in Docs \cup RejectedTexts \cup {Unreadable}}

(***************************************************************************)
(* Exporting.  handleExport downloads the text exportFolderData returns;    *)
(* with the file the model keeps the state that was exported.              *)
(***************************************************************************)
\* JSON.stringify(exportData, null, 2): the document holds numbers, strings,
\* booleans, arrays and plain objects only, and no field is undefined, so
\* the text parses back to the same value
Stringify(exportData) == Json(exportData)

\* the exportData exportFolderData builds from its arguments, the record
\* loaded and the history loaded
ExportedData(state, folderId, existingData, history) ==
  [version |-> "1.0.0",
   folderData |->
     [folderId            |-> folderId,
      folderName          |-> state.folderName,
      lastPlayedTrackIndex |-> state.currentIndex,
      lastPlayedPosition  |-> state.currentTime,
      favorites           |->
        IF existingData # <<>> THEN existingData[1].favorites
        ELSE LikedNames(state.files),
      volume              |-> state.volume,
      isShuffle           |-> state.isShuffle,
      isRepeat            |-> state.isRepeat,
      customPlaylists     |->
        IF existingData # <<>> THEN existingData[1].customPlaylists ELSE <<>>,
      recentlyPlayed      |->
        IF existingData # <<>> THEN existingData[1].recentlyPlayed ELSE <<>>,
      trackStats          |->
        IF existingData # <<>> THEN existingData[1].trackStats ELSE <<>>],
   globalHistory |-> IF history # <<>> THEN history[1] ELSE NewGlobalHistory]

\* the Export button, shown while there are files: exportFolderData is
\* called with the state rendered and awaits loadFolderData(folderId)
handleExport ==
  /\ mounted /\ ~renderPending
  /\ folderName # "" /\ Len(files) > 0
  /\ Room
  /\ dbQueue' = Append(dbQueue,
        GetReq("folders", generateFolderId(folderName, Names(files)),
               [k |-> "exportFolderData", state |-> CurrentState,
                trackStats |-> trackStats, nPlays |-> nPlays]))
  /\ UNCHANGED <<storeVars, saveTimeout, playerVars, compVars, callHist,
                 saveHist, nWrites, sideVars>>

\* exportFolderData after await loadFolderData: loadGlobalHistory is awaited
exportFolderLoaded ==
  /\ HeadIs("exportFolderData")
  /\ LET req == Head(dbQueue)
     IN  dbQueue' = Append(Tail(dbQueue),
           GetReq("globalHistory", "global",
                  [req.then EXCEPT !.k = "exportFolderData.history"] @@
                  [folderId |-> req.key,
                   existingData |-> loadFolderData(req.key)]))
  /\ UNCHANGED <<storeVars, saveTimeout, playerVars, compVars, callHist,
                 saveHist, nWrites, sideVars>>

exportHistoryLoadedStoring ==
  /\ HeadIs("exportFolderData.history")
  /\ LET t == Head(dbQueue).then
     IN  exported' =
           <<[text |-> Stringify(ExportedData(t.state, t.folderId,
                                              t.existingData, globalHistory)),
              state |-> t.state, trackStats |-> t.trackStats,
              nPlays |-> t.nPlays]>>
  /\ globalHistory' =
       IF globalHistory # <<>> THEN globalHistory ELSE <<NewGlobalHistory>>
  /\ dbQueue' = Tail(dbQueue)
  /\ UNCHANGED <<folders, settings, saveTimeout, playerVars, compVars,
                 callHist, saveHist, nWrites, nRecent, dbVars, idCalls>>

\* exportFolderData after await loadGlobalHistory: the text is returned and
\* handleExport downloads it
exportHistoryLoaded ==
  /\ HeadIs("exportFolderData.history")
  /\ LET t == Head(dbQueue).then
     IN  exported' =
           <<[text |-> Stringify(ExportedData(t.state, t.folderId,
                                              t.existingData, globalHistory)),
              state |-> t.state, trackStats |-> t.trackStats,
              nPlays |-> t.nPlays]>>
  /\ dbQueue' = Tail(dbQueue)
  /\ UNCHANGED <<storeVars, saveTimeout, playerVars, compVars, callHist,
                 saveHist, nWrites, nRecent, dbVars, idCalls>>

(***************************************************************************)
(* The initial state: an empty database, a component just mounted.         *)
(***************************************************************************)
Init ==
  /\ folders = <<>>
  /\ settings = <<>>
  /\ globalHistory = <<>>
  /\ dbQueue = <<>>
  /\ saveTimeout = <<>>
  /\ folderName = ""
  /\ files = <<>>
  /\ currentIndex = -1
  /\ currentTime = 0
  /\ volume = FullVolume
  /\ isShuffle = FALSE
  /\ isRepeat = FALSE
  /\ trackStats = <<>>
  /\ mounted = TRUE
  /\ renderPending = FALSE
  /\ hasSrc = FALSE
  /\ fileReads = <<>>
  /\ alerted = FALSE
  /\ nEvents = 0
  /\ outcome = "none"
  /\ nPlays = 0
  /\ nQueues = 0
  /\ nSaves = 0
  /\ sinceSave = 0
  /\ rapid = TRUE
  /\ lastSave = <<>>
  /\ nWrites = 0
  /\ exported = <<>>
  /\ nRecent = 0
  /\ db = <<>>
  /\ opening = <<>>
  /\ nOpens = 0
  /\ worked = <<>>
  /\ idCalls = <<>>

(***************************************************************************)
(* trackPlay and trackQueue called one at a time: a call is issued only    *)
(* when the store has answered every request of the calls before it.       *)
(***************************************************************************)
SeqNext ==
  \/ /\ dbQueue = <<>>
     /\ \E f \in Folders, i \in 0..1, t \in PlayTimes :
          trackPlay(f.folderName, Scanned(f.names), i, t)
  \/ /\ dbQueue = <<>>
     /\ \E f \in Folders, i \in 0..1 :
          trackQueue(f.folderName, Scanned(f.names), i)
  \/ trackPlayLoaded
  \/ trackPlaySaved
  \/ trackPlayGlobalLoaded
  \/ trackPlayDone
  \/ trackQueueLoaded
  \/ trackQueueSaved

SeqSpec == Init /\ [][SeqNext]_vars

(***************************************************************************)
(* trackPlay calls running concurrently, and nothing else.                 *)
(***************************************************************************)
PlayNext ==
  \/ \E f \in Folders, i \in 0..1, t \in PlayTimes :
        trackPlay(f.folderName, Scanned(f.names), i, t)
  \/ trackPlayLoaded
  \/ trackPlaySaved
  \/ trackPlayGlobalLoaded
  \/ trackPlayDone

PlaySpec == Init /\ [][PlayNext]_vars

(***************************************************************************)
(* saveState calls and the debounce timer.                                 *)
(***************************************************************************)
SaveNext ==
  \/ \E state \in SaveStates : saveState(state)
  \/ saveStateLoaded
  \/ TimerFire
  \/ saveFnDone
  \/ Tick

SaveSpec == Init /\ [][SaveNext]_vars
(***************************************************************************)
(* The MusicPlayer component in use: the user's and the audio element's    *)
(* events, the renders, the store's answers, the debounce timer.           *)
(***************************************************************************)
Next ==
  \/ \E scan \in Scans : handleFolderSelect(scan)
  \/ loadFromJsonFileRead
  \/ loadStateLoaded
  \/ applyImportedDataDone
  \/ \E text \in Texts : handleImport(text)
  \/ handleImportRead
  \/ \E index \in 0..1 : toggleLike(index)
  \/ toggleShuffle
  \/ toggleRepeat
  \/ \E newVolume \in Volumes : handleVolumeChange(newVolume)
  \/ \E index \in 0..1 : playFile(index)
  \/ \E time \in Positions : handleTimeUpdate(time)
  \/ \E playTime \in PlayTimes : handleEnded(playTime)
  \/ trackPlayLoaded
  \/ trackPlaySaved
  \/ trackPlayGlobalLoaded
  \/ trackPlayDone
  \/ handleEndedStats
  \/ Render
  \/ saveStateLoaded
  \/ loadTrackStatsLoaded
  \/ TimerFire
  \/ saveFnDone
  \/ Tick
  \/ Unmount

Spec == Init /\ [][Next]_vars

(***************************************************************************)
(* A player that stays mounted, with folders opened from the store and the *)
(* controls used.  The store answers every request, every pending render   *)
(* runs, time passes and a timer that is due fires.                        *)
(***************************************************************************)
OpenNext ==
  \/ \E scan \in {sc \in Scans : sc.json = <<>>} : handleFolderSelect(scan)
  \/ loadStateLoaded
  \/ \E index \in 0..1 : toggleLike(index)
  \/ toggleRepeat
  \/ \E newVolume \in Volumes : handleVolumeChange(newVolume)
  \/ Render
  \/ saveStateLoaded
  \/ loadTrackStatsLoaded
  \/ TimerFire
  \/ saveFnDone
  \/ Tick

FairSpec ==
  /\ Init
  /\ [][OpenNext]_vars
  /\ WF_vars(loadStateLoaded)
  /\ WF_vars(Render)
  /\ WF_vars(saveStateLoaded)
  /\ WF_vars(loadTrackStatsLoaded)
  /\ WF_vars(TimerFire)
  /\ WF_vars(saveFnDone)
  /\ WF_vars(Tick)

(***************************************************************************)
(* A folder that carries an export document is opened: the document is     *)
(* read, imported over the files scanned and applied, or the stored record *)
(* is asked for.                                                           *)
(***************************************************************************)
DocNext ==
  \/ \E scan \in DocScans : handleFolderSelect(scan)
  \/ loadFromJsonFileRead
  \/ loadStateLoaded
  \/ applyImportedDataDone

DocSpec == Init /\ [][DocNext]_vars

(***************************************************************************)
(* Album is opened, its tracks are liked, the state is exported and the    *)
(* file exported is imported.                                              *)
(***************************************************************************)
ExportNext ==
  \/ \E scan \in {sc \in Scans : sc.folderName = "Album" /\ sc.json = <<>>} :
        handleFolderSelect(scan)
  \/ loadStateLoaded
  \/ applyImportedDataDone
  \/ \E index \in 0..1 : toggleLike(index)
  \/ handleExport
  \/ exportFolderLoaded
  \/ exportHistoryLoaded
  \/ exported # <<>> /\ handleImport(exported[1].text)
  \/ handleImportRead
  \/ Render
  \/ saveStateLoaded
  \/ loadTrackStatsLoaded
  \/ TimerFire
  \/ saveFnDone
  \/ Tick

ExportSpec == Init /\ [][ExportNext]_vars

(***************************************************************************)
(* Plays are counted while a folder that carries an export document is     *)
(* opened: trackPlay calls and the import of the document's globalHistory. *)
(***************************************************************************)
HistoryNext ==
  \/ \E f \in Folders, i \in 0..1, t \in PlayTimes :
        trackPlay(f.folderName, Scanned(f.names), i, t)
  \/ trackPlayLoaded
  \/ trackPlaySaved
  \/ trackPlayGlobalLoaded
  \/ trackPlayDone
  \/ \E scan \in {sc \in Scans : sc.json # <<>>} : handleFolderSelect(scan)
  \/ loadFromJsonFileRead
  \/ loadStateLoaded
  \/ applyImportedDataDone

HistorySpec == Init /\ [][HistoryNext]_vars

(***************************************************************************)
(* The same, with a document whose globalHistory was not written by        *)
(* exportFolderData: importFolderData checks version and folderData only.  *)
(***************************************************************************)
\* a globalHistory whose totalPlays is not the sum of its tracks' playCounts
EditedHistory == [DocHistory EXCEPT !.totalPlays = 3]

EditedDoc ==
  Json([version |-> "1.0.0", folderData |-> DocFolderData,
        globalHistory |-> EditedHistory])

TotalsNext ==
  \/ \E f \in Folders, i \in 0..1, t \in PlayTimes :
        trackPlay(f.folderName, Scanned(f.names), i, t)
  \/ trackPlayLoaded
  \/ trackPlaySaved
  \/ trackPlayGlobalLoaded
  \/ trackPlayDone
  \/ \E text \in {ExportDoc, EditedDoc} :
        handleFolderSelect([folderName |-> "Album", names |-> <<"A", "B">>,
                            json |-> <<text>>])
  \/ loadFromJsonFileRead
  \/ applyImportedDataDone

TotalsSpec == Init /\ [][TotalsNext]_vars

(***************************************************************************)
(* trackPlay and trackQueue calls running concurrently.                    *)
(***************************************************************************)
CallNext ==
  \/ \E f \in Folders, i \in 0..1, t \in PlayTimes :
        trackPlay(f.folderName, Scanned(f.names), i, t)
  \/ \E f \in Folders, i \in 0..1 :
        trackQueue(f.folderName, Scanned(f.names), i)
  \/ trackPlayLoaded
  \/ trackPlaySaved
  \/ trackPlayGlobalLoaded
  \/ trackPlayDone
  \/ trackQueueLoaded
  \/ trackQueueSaved

CallSpec == Init /\ [][CallNext]_vars

(***************************************************************************)
(* A folder of more tracks than recentlyPlayed holds, and the store as     *)
(* plays of its first tracks, one after the other, leave it.               *)
(***************************************************************************)
ManyFiles == Scanned(Letters)
ManyId == generateFolderId("Album", Letters)

\* loadFolderData(folderId) after the first k tracks, k of them fitting into
\* recentlyPlayed, were played once each, in order, by trackPlay calls made
\* one at a time: each has a play counted, the last played comes first
PlayedRecordOf(folderId, k) ==
  [NewFolderData(folderId, "Album") EXCEPT
     !.trackStats =
        [n \in {Letters[i] : i \in 1..k} |->
           [NewTrackStats(n) EXCEPT !.playCount = 1]],
     !.recentlyPlayed = [i \in 1..k |-> Letters[k + 1 - i]]]

\* loadGlobalHistory() after the same plays, of 60 seconds each
PlayedHistoryOf(folderId, k) ==
  [tracks |->
     [id \in {TrackId(folderId, Letters[i]) : i \in 1..k} |->
        [NewGlobalTrack(folderId, "Album", id[3]) EXCEPT
           !.playCount = 1, !.totalPlayTime = 60]],
   totalPlays |-> k]

PlayedRecord(k) ==
  IF k = 0 THEN <<>>
  ELSE CHOOSE loaded \in {<<PlayedRecordOf(id, k)>> : id \in {ManyId}} : TRUE

PlayedHistory(k) ==
  IF k = 0 THEN <<>>
  ELSE CHOOSE loaded \in {<<PlayedHistoryOf(id, k)>> : id \in {ManyId}} : TRUE

\* the numbers of plays the store starts from: none, one less than
\* recentlyPlayed holds, and as many as it holds
PlayedBefore == {0, MAX_RECENTLY_PLAYED - 1, MAX_RECENTLY_PLAYED}

\* the tracks played and queued: the first, the last that fits into
\* recentlyPlayed, and the one past it
ManyIndexes == {0, MAX_RECENTLY_PLAYED - 1, MAX_RECENTLY_PLAYED}

\* the state the save effect hands to saveState with the folder open
ManyState ==
  [folderName |-> "Album", files |-> ManyFiles, currentIndex |-> 0,
   currentTime |-> 0, volume |-> FullVolume, isShuffle |-> FALSE,
   isRepeat |-> FALSE]

\* the component just mounted, over a database that earlier plays of the
\* folder's tracks have filled
RecentInit ==
  /\ \E k \in PlayedBefore :
       /\ folders = IF k = 0 THEN <<>> ELSE (ManyId :> PlayedRecord(k)[1])
       /\ globalHistory = PlayedHistory(k)
  /\ settings = <<>>
  /\ dbQueue = <<>>
  /\ saveTimeout = <<>>
  /\ folderName = ""
  /\ files = <<>>
  /\ currentIndex = -1
  /\ currentTime = 0
  /\ volume = FullVolume
  /\ isShuffle = FALSE
  /\ isRepeat = FALSE
  /\ trackStats = <<>>
  /\ mounted = TRUE
  /\ renderPending = FALSE
  /\ hasSrc = FALSE
  /\ fileReads = <<>>
  /\ alerted = FALSE
  /\ nEvents = 0
  /\ outcome = "none"
  /\ nPlays = 0
  /\ nQueues = 0
  /\ nSaves = 0
  /\ sinceSave = 0
  /\ rapid = TRUE
  /\ lastSave = <<>>
  /\ nWrites = 0
  /\ exported = <<>>
  /\ nRecent = 0
  /\ db = <<>>
  /\ opening = <<>>
  /\ nOpens = 0
  /\ worked = <<>>
  /\ idCalls = <<>>

(***************************************************************************)
(* trackPlay, trackQueue and saveState calls for that folder, running      *)
(* concurrently, and the debounce timer.                                   *)
(***************************************************************************)
CallsLeft == nPlays + nQueues + nSaves < MaxCalls

RecentNext ==
  \/ /\ CallsLeft
     /\ \E i \in ManyIndexes : trackPlay("Album", ManyFiles, i, 60)
  \/ /\ CallsLeft
     /\ \E i \in ManyIndexes : trackQueue("Album", ManyFiles, i)
  \/ trackPlayLoaded
  \/ trackPlaySaved
  \/ trackPlayGlobalLoaded
  \/ trackPlayDone
  \/ trackQueueLoaded
  \/ trackQueueSaved
  \/ CallsLeft /\ saveState(ManyState)
  \/ saveStateLoaded
  \/ TimerFire
  \/ saveFnDone
  \/ Tick

RecentSpec == RecentInit /\ [][RecentNext]_vars

(***************************************************************************)
(* updateRecentFolders.                                                    *)
(***************************************************************************)
\* loadGlobalSettings() || {theme: 'dark', defaultVolume: 1, recentFolders: []}
SettingsOr(loaded) ==
  IF loaded # <<>> THEN loaded[1]
  ELSE [theme |-> "dark", defaultVolume |-> FullVolume, recentFolders |-> <<>>]

\* recentFolders with the folder put first, were its old entry not removed
PushFolderKept(recentFolders, folderId, name) ==
  Slice(<<[folderId |-> folderId, folderName |-> name]>> \o recentFolders,
        MAX_RECENT_FOLDERS)

\* recentFolders after updateRecentFolders: the folder's entry is filtered
\* out, a new one is put first and the list is cut to MAX_RECENT_FOLDERS
PushFolder(recentFolders, folderId, name) ==
  Slice(<<[folderId |-> folderId, folderName |-> name]>>
          \o SelectSeq(recentFolders, LAMBDA f : f.folderId # folderId),
        MAX_RECENT_FOLDERS)

\* updateRecentFolders(folderId, folderName) up to await loadGlobalSettings()
updateRecentFolders(folderId, name) ==
  /\ nRecent < MaxRecent
  /\ Room
  /\ dbQueue' = Append(dbQueue,
        GetReq("settings", "global",
               [k |-> "updateRecentFolders", folderId |-> folderId,
                folderName |-> name]))
  /\ nRecent' = nRecent + 1
  /\ UNCHANGED <<storeVars, saveTimeout, playerVars, compVars, callHist,
                 saveHist, nWrites, exported, dbVars, idCalls>>

\* updateRecentFolders after await loadGlobalSettings(): the list is
\* rebuilt and saveGlobalSettings is called
updateRecentLoaded ==
  /\ HeadIs("updateRecentFolders")
  /\ LET t == Head(dbQueue).then
         loaded == SettingsOr(settings)
     IN  dbQueue' = Append(Tail(dbQueue),
            PutReq("settings", "global",
                   [loaded EXCEPT !.recentFolders =
                      PushFolder(@, t.folderId, t.folderName)],
                   [t EXCEPT !.k = "updateRecentFolders.saved"]))
  /\ UNCHANGED <<storeVars, saveTimeout, playerVars, compVars, callHist,
                 saveHist, nWrites, sideVars>>

\* updateRecentFolders after await saveGlobalSettings: the settings are
\* stored and the call returns
updateRecentSaved ==
  /\ HeadIs("updateRecentFolders.saved")
  /\ settings' = Head(dbQueue).value
  /\ dbQueue' = Tail(dbQueue)
  /\ UNCHANGED <<folders, globalHistory, saveTimeout, playerVars, compVars,
                 callHist, saveHist, nWrites, sideVars>>

\* the ids of the folders opened: one more than recentFolders holds
OpenedId(i) == <<"folder_", <<i>>>>

\* loadGlobalSettings() after the first k folders were opened once each, in
\* order, by updateRecentFolders calls made one at a time
OpenedSettings(k) ==
  IF k = 0 THEN <<>>
  ELSE <<[SettingsOr(<<>>) EXCEPT
            !.recentFolders =
               [i \in 1..k |->
                  [folderId |-> OpenedId(k + 1 - i), folderName |-> "Album"]]]>>

\* the numbers of folders the settings start from: none, one less than
\* recentFolders holds, and as many as it holds
OpenedBefore == {0, MAX_RECENT_FOLDERS - 1, MAX_RECENT_FOLDERS}

\* the folders the calls open: the first, the last that fits into
\* recentFolders, and the one past it
OpenedNow == {1, MAX_RECENT_FOLDERS, MAX_RECENT_FOLDERS + 1}

FoldersInit ==
  /\ \E k \in OpenedBefore : settings = OpenedSettings(k)
  /\ folders = <<>>
  /\ globalHistory = <<>>
  /\ dbQueue = <<>>
  /\ saveTimeout = <<>>
  /\ folderName = ""
  /\ files = <<>>
  /\ currentIndex = -1
  /\ currentTime = 0
  /\ volume = FullVolume
  /\ isShuffle = FALSE
  /\ isRepeat = FALSE
  /\ trackStats = <<>>
  /\ mounted = TRUE
  /\ renderPending = FALSE
  /\ hasSrc = FALSE
  /\ fileReads = <<>>
  /\ alerted = FALSE
  /\ nEvents = 0
  /\ outcome = "none"
  /\ nPlays = 0
  /\ nQueues = 0
  /\ nSaves = 0
  /\ sinceSave = 0
  /\ rapid = TRUE
  /\ lastSave = <<>>
  /\ nWrites = 0
  /\ exported = <<>>
  /\ nRecent = 0
  /\ db = <<>>
  /\ opening = <<>>
  /\ nOpens = 0
  /\ worked = <<>>
  /\ idCalls = <<>>

\* updateRecentFolders calls running concurrently
FoldersNext ==
  \/ \E i \in OpenedNow : updateRecentFolders(OpenedId(i), "Album")
  \/ updateRecentLoaded
  \/ updateRecentSaved

FoldersSpec == FoldersInit /\ [][FoldersNext]_vars

(***************************************************************************)
(* initDB: the connection every store operation asks for first.            *)
(***************************************************************************)
\* store operations, each starting with await initDB()
StoreOps == {"saveFolderData", "loadFolderData", "loadGlobalHistory"}

\* initDB() called by operation op, up to its return or its await openDB:
\* with db set it returns db, with db null it calls openDB
initDB(op) ==
  /\ Len(worked) + Len(opening) < MaxOps
  /\ IF db # <<>>
     THEN /\ worked' = Append(worked, [op |-> op, handle |-> db[1]])
          /\ UNCHANGED <<db, opening, nOpens>>
     ELSE /\ nOpens' = nOpens + 1
          /\ opening' = Append(opening, [op |-> op, handle |-> nOpens + 1])
          /\ UNCHANGED <<db, worked>>
  /\ UNCHANGED <<storeVars, dbQueue, saveTimeout, playerVars, compVars,
                 callHist, saveHist, nWrites, exported, nRecent,
                 idCalls>>

\* initDB after await openDB: the connection opened is assigned to db and
\* returned
openDBDone ==
  /\ opening # <<>>
  /\ db' = <<Head(opening).handle>>
  /\ worked' = Append(worked, Head(opening))
  /\ opening' = Tail(opening)
  /\ UNCHANGED <<nOpens, storeVars, dbQueue, saveTimeout, playerVars,
                 compVars, callHist, saveHist, nWrites, exported, nRecent,
                 idCalls>>

InitDBNext ==
  \/ \E op \in StoreOps : initDB(op)
  \/ openDBDone

InitDBSpec == Init /\ [][InitDBNext]_vars

(***************************************************************************)
(* A store operation of trackPlay that fails.                              *)
(***************************************************************************)
\* the requests of a trackPlay call
TrackPlaySteps ==
  {"trackPlay", "trackPlay.saved", "trackPlay.global", "trackPlay.done"}

\* the store rejects the request at the head of the queue, one of a
\* trackPlay call: the await in trackPlay throws, trackPlay has no catch and
\* rejects, and neither has handleEnded, which ends at its await
trackPlayFailed ==
  /\ dbQueue # <<>>
  /\ Head(dbQueue).then.k \in TrackPlaySteps
  /\ dbQueue' = Tail(dbQueue)
  /\ UNCHANGED <<storeVars, saveTimeout, playerVars, compVars, callHist,
                 saveHist, nWrites, sideVars>>

\* a folder is opened and played to the end of a track, and the store may
\* fail while the play is recorded
FailNext ==
  \/ \E scan \in {sc \in Scans : sc.json = <<>>} : handleFolderSelect(scan)
  \/ loadStateLoaded
  \/ toggleRepeat
  \/ \E index \in 0..1 : playFile(index)
  \/ \E playTime \in PlayTimes : handleEnded(playTime)
  \/ trackPlayLoaded
  \/ trackPlaySaved
  \/ trackPlayGlobalLoaded
  \/ trackPlayDone
  \/ trackPlayFailed
  \/ handleEndedStats
  \/ Render
  \/ saveStateLoaded
  \/ loadTrackStatsLoaded
  \/ TimerFire
  \/ saveFnDone
  \/ Tick

FailSpec == Init /\ [][FailNext]_vars

(***************************************************************************)
(* A folder in which two files have one display name, as A.mp3 and A.flac  *)
(* have: the name of an AudioFile is the file name without its extension.  *)
(***************************************************************************)
TwinNext ==
  \/ \E names \in {<<"A", "A">>, <<"A", "B">>} :
        handleFolderSelect([folderName |-> "Album", names |-> names,
                            json |-> <<>>])
  \/ loadStateLoaded
  \/ \E index \in 0..1 : toggleLike(index)
  \/ Render
  \/ saveStateLoaded
  \/ loadTrackStatsLoaded
  \/ TimerFire
  \/ saveFnDone
  \/ Tick

TwinSpec == Init /\ [][TwinNext]_vars

(***************************************************************************)
(* generateFolderId called with any folder name and any list of track      *)
(* names, a name more than once included.                                  *)
(***************************************************************************)
NameLists == UNION {[1..n -> {"A", "B", "C"}] : n \in 0..MaxNames}

generateFolderIdCall(name, trackNames) ==
  /\ Len(idCalls) < MaxIds
  /\ idCalls' = Append(idCalls,
        [folderName |-> name, trackNames |-> trackNames,
         id |-> generateFolderId(name, trackNames)])
  /\ UNCHANGED <<storeVars, dbQueue, saveTimeout, playerVars, compVars,
                 callHist, saveHist, nWrites, exported, nRecent, dbVars>>

IdNext ==
  \E name \in {"Album", "Live"}, trackNames \in NameLists :
    generateFolderIdCall(name, trackNames)

IdSpec == Init /\ [][IdNext]_vars

(***************************************************************************)
(* saveState, trackPlay and trackQueue calls for one folder, running       *)
(* concurrently, and the debounce timer.                                   *)
(***************************************************************************)
RaceNext ==
  \/ CallsLeft /\ \E state \in SaveStates : saveState(state)
  \/ saveStateLoaded
  \/ TimerFire
  \/ saveFnDone
  \/ Tick
  \/ /\ CallsLeft
     /\ \E i \in 0..1 : trackPlay("Album", Scanned(<<"A", "B">>), i, 60)
  \/ trackPlayLoaded
  \/ trackPlaySaved
  \/ trackPlayGlobalLoaded
  \/ trackPlayDone
  \/ /\ CallsLeft
     /\ \E i \in 0..1 : trackQueue("Album", Scanned(<<"A", "B">>), i)
  \/ trackQueueLoaded
  \/ trackQueueSaved

RaceSpec == Init /\ [][RaceNext]_vars

(***************************************************************************)
(* The claims.                                                             *)
(***************************************************************************)
\* the playCount stats holds for trackName, 0 without an entry
PlayCountIn(stats, trackName) ==
  IF trackName \in DOMAIN stats THEN stats[trackName].playCount ELSE 0

\* the trackStats stored for folderId, none without a record
StoredStats(store, folderId) ==
  IF folderId \in DOMAIN store THEN store[folderId].trackStats ELSE <<>>

\* C1: a trackPlay call with a valid track index, run without interleaving
\* with other store writers, raises the track's playCount in the folder's
\* stored record by exactly 1, creating the record and the entry when they
\* are absent, leaves the stats of every other track as they were, and has
\* written the record by its own saveFolderData, not through the debounce
\* timer, when it completes.
C1_TrackPlayCountsOnce ==
  [][/\ HeadIs("trackPlay.saved") =>
          LET t == Head(dbQueue).then
              old == StoredStats(folders, t.folderId)
              new == StoredStats(folders', t.folderId)
          IN  /\ t.folderId \in DOMAIN folders'
              /\ PlayCountIn(new, t.trackName)
                   = PlayCountIn(old, t.trackName) + 1
              /\ DOMAIN new = DOMAIN old \cup {t.trackName}
              /\ \A n \in DOMAIN old \ {t.trackName} : new[n] = old[n]
              /\ \A id \in DOMAIN folders \ {t.folderId} :
                   id \in DOMAIN folders' /\ folders'[id] = folders[id]
              /\ saveTimeout' = saveTimeout
     /\ (HeadIs("trackPlay") \/ HeadIs("trackPlay.global")
           \/ HeadIs("trackPlay.done")) => folders' = folders
     /\ HeadIs("trackPlay.done") =>
          LET t == Head(dbQueue).then
          IN  /\ t.folderId \in DOMAIN folders
              /\ folders[t.folderId] = t.folderData
    ]_vars

\* C1's case: a play has just been stored that raised a count from 1 to 2
\* in a record that holds the stats of another track too
C1_Witness ==
  /\ HeadIs("trackPlay.global")
  /\ LET t == Head(dbQueue).then
     IN  /\ t.folderId \in DOMAIN folders
         /\ folders[t.folderId].trackStats[t.trackName].playCount = 2
         /\ Cardinality(DOMAIN folders[t.folderId].trackStats) = 2

\* the stored GlobalHistory, the empty one when there is none
StoredHistory(stored) == IF stored = <<>> THEN NewGlobalHistory ELSE stored[1]

\* the playCount and totalPlayTime history holds under trackId, 0 without
\* an entry
GlobalCountIn(history, trackId) ==
  IF trackId \in DOMAIN history.tracks
  THEN history.tracks[trackId].playCount ELSE 0
GlobalTimeIn(history, trackId) ==
  IF trackId \in DOMAIN history.tracks
  THEN history.tracks[trackId].totalPlayTime ELSE 0

\* C2: a trackPlay call for track T of the folder with id X and play time t,
\* run without interleaving, raises GlobalHistory.tracks[X_T].playCount by 1,
\* its totalPlayTime by t and GlobalHistory.totalPlays by 1, creating the
\* record or the entry when absent; the first play of all, of track A of
\* Album with t = 120, gives folder playCount 1, totalPlayTime 120 and
\* totalPlays 1.
C2_TrackPlayGlobalHistory ==
  [][HeadIs("trackPlay.done") =>
       LET t == Head(dbQueue).then
           trackId == TrackId(t.folderId, t.trackName)
           old == StoredHistory(globalHistory)
           new == StoredHistory(globalHistory')
       IN  /\ globalHistory' # <<>>
           /\ GlobalCountIn(new, trackId) = GlobalCountIn(old, trackId) + 1
           /\ GlobalTimeIn(new, trackId)
                = GlobalTimeIn(old, trackId) + t.playTime
           /\ new.totalPlays = old.totalPlays + 1
           /\ \A other \in DOMAIN old.tracks \ {trackId} :
                other \in DOMAIN new.tracks
                  /\ new.tracks[other] = old.tracks[other]
           /\ (nPlays = 1 /\ t.folderId = AlbumId /\ t.trackName = "A"
                 /\ t.playTime = 120) =>
                /\ folders'[AlbumId].trackStats["A"].playCount = 1
                /\ new.tracks[TrackId(AlbumId, "A")].totalPlayTime = 120
                /\ new.totalPlays = 1
    ]_vars

\* C2's case: the second play of a track has been added to the global
\* history, the two plays lasting 60 and 120 seconds
C2_Witness ==
  /\ dbQueue = <<>>
  /\ globalHistory # <<>>
  /\ TrackId(AlbumId, "A") \in DOMAIN globalHistory[1].tracks
  /\ globalHistory[1].tracks[TrackId(AlbumId, "A")].playCount = 2
  /\ globalHistory[1].tracks[TrackId(AlbumId, "A")].totalPlayTime = 180
  /\ globalHistory[1].totalPlays = 3

RECURSIVE SumPlayCounts(_, _)
\* the sum of playCount over the entries of stats named in names
SumPlayCounts(stats, names) ==
  IF names = {} THEN 0
  ELSE LET n == CHOOSE n \in names : TRUE
       IN  stats[n].playCount + SumPlayCounts(stats, names \ {n})

RECURSIVE SumFolderPlays(_, _)
\* the sum of the playCounts of the records stored under ids
SumFolderPlays(store, ids) ==
  IF ids = {} THEN 0
  ELSE LET id == CHOOSE id \in ids : TRUE
       IN  SumPlayCounts(store[id].trackStats, DOMAIN store[id].trackStats)
             + SumFolderPlays(store, ids \ {id})

\* C3: after k trackPlay calls with valid track indices have all completed,
\* with no import and no reset in between, GlobalHistory.totalPlays has grown
\* by exactly k and the folder playCounts of the played tracks have grown by
\* exactly k in total, whatever the interleaving of the calls' reads and
\* writes.
C3_EveryPlayCounted ==
  dbQueue = <<>> =>
    /\ StoredHistory(globalHistory).totalPlays = nPlays
    /\ SumFolderPlays(folders, DOMAIN folders) = nPlays

\* the fields of a stored record that saveState takes from its argument
SavedFields(record) ==
  [currentIndex |-> record.lastPlayedTrackIndex,
   currentTime  |-> record.lastPlayedPosition,
   volume       |-> record.volume,
   isShuffle    |-> record.isShuffle,
   isRepeat     |-> record.isRepeat,
   favorites    |-> record.favorites]

\* the same fields of the state given to saveState
StateFields(state) ==
  [currentIndex |-> state.currentIndex,
   currentTime  |-> state.currentTime,
   volume       |-> state.volume,
   isShuffle    |-> state.isShuffle,
   isRepeat     |-> state.isRepeat,
   favorites    |-> LikedNames(state.files)]

\* C4: N >= 1 saveState calls for the same folder, each issued less than the
\* 1000 ms delay after the one before and followed by no further call, make
\* exactly one saveFolderData write reach the store, and the record written
\* carries the index, position, volume, shuffle, repeat and favorites given
\* to the Nth call.
C4_RapidSavesWriteOnce ==
  (nSaves >= 1 /\ rapid /\ dbQueue = <<>> /\ saveTimeout = <<>>) =>
    /\ nWrites = 1
    /\ AlbumId \in DOMAIN folders
    /\ SavedFields(folders[AlbumId]) = StateFields(lastSave[1])

\* the id derived from the folder name and the files the player holds
OpenFolderId == generateFolderId(folderName, Names(files))

\* the step in which the debounce timer elapses and its write is submitted
TimerElapses ==
  /\ saveTimeout # <<>>
  /\ saveTimeout' = <<>>
  /\ Len(dbQueue') = Len(dbQueue) + 1
  /\ dbQueue'[Len(dbQueue')].then.k = "saveFn"

\* C5: once the player has switched to another folder, or the persistence
\* hook has unmounted, no debounced write scheduled by a saveState call made
\* for the previous folder context reaches the store: a timer that elapses
\* outside a scan belongs to a mounted player and writes the record of the
\* folder that player has open.
C5_NoWriteFromPreviousContext ==
  [][(TimerElapses /\ ~Scanning) =>
       /\ mounted
       /\ saveTimeout[1].folderData.folderId = OpenFolderId
    ]_vars

PlaybackState == <<folderName, files, currentIndex, volume, isShuffle, isRepeat>>

\* the record stored under the open folder's id holds the playback state
StoredIsCurrent ==
  (folderName # "" /\ Len(files) > 0) =>
    /\ OpenFolderId \in DOMAIN folders
    /\ folders[OpenFolderId].lastPlayedTrackIndex = currentIndex
    /\ folders[OpenFolderId].volume = volume
    /\ folders[OpenFolderId].isShuffle = isShuffle
    /\ folders[OpenFolderId].isRepeat = isRepeat
    /\ folders[OpenFolderId].favorites = LikedNames(files)

\* C6: if the playback state of an open folder (current index, volume,
\* shuffle, repeat, liked flags) stops changing and the store keeps
\* answering, then eventually the FolderRecord stored under the folder's id
\* holds that final state.
C6_FinalStateIsStored ==
  <>[][UNCHANGED PlaybackState]_vars => []<>StoredIsCurrent

\* the step in which a scan has read its .elevenmusic.json, and the one in
\* which the store answers a scan's loadState
ScanDocumentRead ==
  /\ fileReads # <<>> /\ Head(fileReads).k = "loadFromJsonFile"
  /\ fileReads' = Tail(fileReads)
ScanRecordLoaded == HeadIs("loadState") /\ dbQueue' = Tail(dbQueue)

\* a text that parses to a document with version and folderData
IsExportDocument(text) ==
  /\ text.readable /\ text.syntax
  /\ Has(text.value, "version") /\ Has(text.value, "folderData")

\* the index a scan of n tracks starts from by default
DefaultIndex(n) == IF n > 0 THEN 0 ELSE -1

\* C7: on a folder scan the starting playback state is taken from an
\* accepted export document among the scanned files if there is one;
\* otherwise from the FolderRecord stored under the derived folder id if
\* there is one; otherwise from defaults.  A rejected document changes
\* nothing and falls through to the stored record or the defaults.
C7_ScanSourcePriority ==
  [][/\ (ScanDocumentRead /\ mounted) =>
          LET r == Head(fileReads)
          IN  IF IsExportDocument(r.text)
              THEN LET fd == r.text.value.folderData
                   IN  /\ Names(files') = Names(r.files)
                       /\ Range(LikedNames(files'))
                            = Range(fd.favorites) \cap Range(Names(r.files))
                       /\ volume' = fd.volume
                       /\ isShuffle' = fd.isShuffle
                       /\ isRepeat' = fd.isRepeat
                       /\ (fd.lastPlayedTrackIndex < Len(r.files)) =>
                            currentIndex' = fd.lastPlayedTrackIndex
              ELSE /\ UNCHANGED playerVars
                   /\ Len(dbQueue') = Len(dbQueue) + 1
                   /\ dbQueue'[Len(dbQueue')].then.k = "loadState"
                   /\ dbQueue'[Len(dbQueue')].key
                        = generateFolderId(r.folderName, Names(r.files))
     /\ (ScanRecordLoaded /\ mounted) =>
          LET req == Head(dbQueue)
              n == Len(req.then.files)
          IN  /\ Names(files') = Names(req.then.files)
              /\ IF req.key \in DOMAIN folders
                 THEN LET record == folders[req.key]
                      IN  /\ LikedNames(files') = record.favorites
                          /\ trackStats' = record.trackStats
                          /\ volume' = record.volume
                          /\ isShuffle' = record.isShuffle
                          /\ isRepeat' = record.isRepeat
                          /\ currentIndex' =
                               IF record.lastPlayedTrackIndex < n
                               THEN record.lastPlayedTrackIndex ELSE 0
                 ELSE /\ LikedNames(files') = <<>>
                      /\ trackStats' = <<>>
                      /\ currentIndex' = DefaultIndex(n)
    ]_vars

\* C8: a scan of a folder that carries no accepted export document and whose
\* derived id has no stored record yields no file liked, trackStats empty,
\* and currentIndex 0 when the scan has a track and -1 when it has none,
\* whatever folder was open before.
C8_FreshScanDefaults ==
  [][(ScanRecordLoaded /\ mounted /\ Head(dbQueue).key \notin DOMAIN folders)
       => /\ \A i \in 1..Len(files') : ~files'[i].liked
          /\ trackStats' = <<>>
          /\ currentIndex' = IF Len(files') >= 1 THEN 0 ELSE -1
    ]_vars

\* C9: in every state after a folder scan or an import has been applied,
\* currentIndex is -1 or an index into the current file list.
C9_IndexInRange ==
  outcome # "none" =>
    \/ currentIndex = -1
    \/ 0 <= currentIndex /\ currentIndex < Len(files)

\* the step in which handleImport has read the file picked
ImportRead ==
  /\ fileReads # <<>> /\ Head(fileReads).k = "handleImport"
  /\ fileReads' = Tail(fileReads)

\* a text that does not parse, or a document lacking version or folderData
IsRejectedText(text) ==
  /\ text.readable
  /\ \/ ~text.syntax
     \/ ~Has(text.value, "version")
     \/ ~Has(text.value, "folderData")

\* C10: importFolderData given text that does not parse, or a document that
\* lacks version or folderData, returns the rejected value without throwing:
\* handleImport's catch is not entered, and neither the in-memory playback
\* state nor any store collection changes, nor is any store request made.
C10_RejectedImportChangesNothing ==
  [][(ImportRead /\ IsRejectedText(Head(fileReads).text)) =>
       /\ importFolderData(Head(fileReads).text, Head(fileReads).files) = <<>>
       /\ UNCHANGED <<playerVars, storeVars, dbQueue, saveTimeout, alerted>>
    ]_vars

\* C10's case: an import of a rejected text has finished in a player that
\* has Album open
C10_Witness ==
  /\ outcome = "import.rejected"
  /\ mounted
  /\ folderName = "Album" /\ Len(files) = 2

\* C11: a document that has version and folderData but lacks an optional
\* folderData field (favorites, trackStats) is accepted by import and
\* reconciliation, the absent field taking its default (no favorites, no
\* stats); only a text that does not parse, or a document without version
\* or folderData, is rejected.
C11_OptionalFieldsDefault ==
  [][(ScanDocumentRead /\ mounted) =>
       LET r == Head(fileReads)
       IN  IF IsExportDocument(r.text)
           THEN LET fd == r.text.value.folderData
                IN  /\ importFolderData(r.text, r.files) # <<>>
                    /\ outcome' = "scan.document"
                    /\ Names(files') = Names(r.files)
                    /\ ~Has(fd, "favorites") => LikedNames(files') = <<>>
                    /\ ~Has(fd, "trackStats") => trackStats' = <<>>
           ELSE /\ LoadedFromJson(r.text, r.files) = <<>>
                /\ UNCHANGED <<files, trackStats, currentIndex, volume,
                               isShuffle, isRepeat, outcome>>
    ]_vars

\* C12: whenever handleImport is given a document that importFolderData
\* rejects, the user is alerted of the failure.
C12_RejectedImportAlerts ==
  [][(ImportRead /\ IsRejectedText(Head(fileReads).text)) => alerted']_vars

\* how many times x occurs in seq
CountIn(seq, x) == Cardinality({i \in 1..Len(seq) : seq[i] = x})

\* C13: for every accepted document and every current file list, the
\* favorites importFolderData returns are exactly the document's favorites
\* whose name is a current track name, and the trackStats it returns are
\* exactly the document's entries whose key is a current track name, their
\* values unchanged; the files applied are liked accordingly.
C13_ImportPrunesToCurrentTracks ==
  [][(ScanDocumentRead /\ mounted
        /\ LoadedFromJson(Head(fileReads).text, Head(fileReads).files) # <<>>)
       =>
       LET r == Head(fileReads)
           fd == r.text.value.folderData
           current == Range(Names(r.files))
           res == importFolderData(r.text, r.files)[1].folderData
           docStats == IF Has(fd, "trackStats") THEN fd.trackStats ELSE <<>>
       IN  /\ \A name \in Range(fd.favorites) \cup Range(res.favorites) :
                 CountIn(res.favorites, name) =
                   IF name \in current THEN CountIn(fd.favorites, name)
                   ELSE 0
           /\ DOMAIN res.trackStats = DOMAIN docStats \cap current
           /\ \A name \in DOMAIN res.trackStats :
                 res.trackStats[name] = docStats[name]
           /\ Range(LikedNames(files')) = Range(fd.favorites) \cap current
           /\ trackStats' = res.trackStats
    ]_vars

\* C13's case: a document naming tracks that the folder scanned does not
\* have has been applied to the one track it has, B: no document of the
\* model has stats for B alone or likes B alone
C13_Witness ==
  /\ outcome = "scan.document"
  /\ Names(files) = <<"B">>
  /\ files[1].liked
  /\ DOMAIN trackStats = {"B"}

\* C14: for every accepted document and every current file list, the
\* lastPlayedTrackIndex importFolderData returns lies in
\* [0, currentFiles.length): it is the document's index when that is in the
\* range already, and 0 otherwise.
C14_ImportIndexInRange ==
  [][(ScanDocumentRead /\ mounted
        /\ LoadedFromJson(Head(fileReads).text, Head(fileReads).files) # <<>>
        /\ Has(Head(fileReads).text.value.folderData, "lastPlayedTrackIndex"))
       =>
       LET r == Head(fileReads)
           index == r.text.value.folderData.lastPlayedTrackIndex
           n == Len(r.files)
           res == importFolderData(r.text, r.files)[1].folderData
       IN  /\ 0 <= res.lastPlayedTrackIndex
           /\ res.lastPlayedTrackIndex < n
           /\ res.lastPlayedTrackIndex =
                IF 0 <= index /\ index < n THEN index ELSE 0
    ]_vars

\* C15: exporting the current state with exportFolderData and importing the
\* result with importFolderData over the same file list, with no play in
\* between, reproduces the exported state's favorites (the set of liked
\* tracks), trackStats and current track index: an import of the file
\* exported, into a player whose state is still the one exported, leaves
\* the liked tracks, the trackStats and the current index as they are.
C15_ExportImportRoundTrip ==
  [][(/\ ImportRead /\ mounted
      /\ exported # <<>>
      /\ Head(fileReads).text = exported[1].text
      /\ Head(fileReads).files = exported[1].state.files
      /\ files = exported[1].state.files
      /\ currentIndex = exported[1].state.currentIndex
      /\ trackStats = exported[1].trackStats
      /\ nPlays = exported[1].nPlays)
       =>
       /\ outcome' = "import.applied"
       /\ Range(LikedNames(files')) = Range(LikedNames(files))
       /\ trackStats' = trackStats
       /\ currentIndex' = currentIndex
    ]_vars

\* C16: when an accepted import, by handleImport or by a folder scan,
\* carries a globalHistory, saveGlobalHistory is called with the imported
\* history, and the stored GlobalHistory record after that write equals the
\* imported one exactly: it replaces the record stored before and nothing
\* of that record is merged in.
C16_ImportReplacesGlobalHistory ==
  [][/\ ((ImportRead \/ ScanDocumentRead)
           /\ LoadedFromJson(Head(fileReads).text, Head(fileReads).files)
                # <<>>
           /\ Has(Head(fileReads).text.value, "globalHistory"))
          => /\ Len(dbQueue') = Len(dbQueue) + 1
             /\ LET put == dbQueue'[Len(dbQueue')]
                IN  /\ put.op = "put" /\ put.store = "globalHistory"
                    /\ put.then.k = "applyImportedData"
                    /\ put.value
                         = <<Head(fileReads).text.value.globalHistory>>
     /\ (HeadIs("applyImportedData") /\ dbQueue' = Tail(dbQueue))
          => globalHistory' = Head(dbQueue).value
    ]_vars

\* C16's case: a play was counted in the global history, and afterwards an
\* import has replaced that history by the document's, which has no entry
\* of the track played and counts 2 plays
C16_Witness ==
  /\ nPlays >= 1
  /\ globalHistory = <<DocHistory>>
  /\ \A i \in 1..Len(dbQueue) :
        dbQueue[i].then.k \notin {"trackPlay", "trackPlay.saved",
                                  "trackPlay.global", "trackPlay.done",
                                  "applyImportedData"}
  /\ \E id \in DOMAIN folders : folders[id].recentlyPlayed # <<>>

\* C17: trackQueue for a folder id that has no stored FolderRecord writes
\* nothing: the call ends when its loadFolderData is answered, no record is
\* created, and the folders, settings and global-history collections are
\* unchanged.
C17_TrackQueueWithoutRecord ==
  [][(/\ HeadIs("trackQueue")
      /\ Head(dbQueue).key \notin DOMAIN folders
      /\ \/ dbQueue' = Tail(dbQueue)
         \/ /\ Len(dbQueue') = Len(dbQueue)
            /\ dbQueue'[Len(dbQueue')].then.k = "trackQueue.saved")
       => /\ dbQueue' = Tail(dbQueue)
          /\ UNCHANGED storeVars
    ]_vars

\* C17's case: trackQueue calls have been made and have ended, no play was
\* ever counted, and the store is empty
C17_Witness ==
  /\ nQueues = MaxQueues
  /\ nPlays = 0
  /\ dbQueue = <<>>
  /\ folders = <<>> /\ settings = <<>> /\ globalHistory = <<>>

\* the queueCount stats holds for trackName, 0 without an entry
QueueCountIn(stats, trackName) ==
  IF trackName \in DOMAIN stats THEN stats[trackName].queueCount ELSE 0

\* C18: trackQueue for a folder that has a stored record and a valid track
\* index increases that track's queueCount in the stored record by 1 and
\* changes no playCount, not recentlyPlayed, and not the GlobalHistory
\* record.
C18_TrackQueueCountsOnly ==
  [][(HeadIs("trackQueue.saved") /\ dbQueue' = Tail(dbQueue)) =>
       LET id == Head(dbQueue).key
           old == folders[id]
           new == folders'[id]
       IN  /\ id \in DOMAIN folders
           /\ \E t \in DOMAIN new.trackStats :
                /\ new.trackStats[t].queueCount
                     = QueueCountIn(old.trackStats, t) + 1
                /\ \A n \in DOMAIN new.trackStats \ {t} :
                     /\ n \in DOMAIN old.trackStats
                     /\ new.trackStats[n].queueCount
                          = old.trackStats[n].queueCount
           /\ \A n \in DOMAIN new.trackStats :
                new.trackStats[n].playCount = PlayCountIn(old.trackStats, n)
           /\ DOMAIN old.trackStats \subseteq DOMAIN new.trackStats
           /\ new.recentlyPlayed = old.recentlyPlayed
           /\ globalHistory' = globalHistory
    ]_vars

NoNameTwice(list) ==
  \A i, j \in 1..Len(list) : list[i] = list[j] => i = j

RecentlyPlayedIn(stored, id) ==
  IF id \in DOMAIN stored THEN stored[id].recentlyPlayed ELSE <<>>

\* the step answers the request at the head of the queue, and the call that
\* made it goes on to its next request
Answered == dbQueue' # dbQueue /\ Len(dbQueue') = Len(dbQueue)

NamesIn(list) == {list[i] : i \in 1..Len(list)}

\* C19: in every stored folder record recentlyPlayed has at most
\* MAX_RECENTLY_PLAYED entries and no name twice; when trackPlay's
\* saveFolderData is answered the played track is first in the stored list;
\* and the list trackPlay saves for a track that is in the list it loaded
\* has that track first, the same names and the same length
C19_RecentlyPlayedCapped ==
  /\ [](\A id \in DOMAIN folders :
          /\ Len(folders[id].recentlyPlayed) <= MAX_RECENTLY_PLAYED
          /\ NoNameTwice(folders[id].recentlyPlayed))
  /\ [][(HeadIs("trackPlay.saved") /\ Answered) =>
         LET new == RecentlyPlayedIn(folders', Head(dbQueue).key)
         IN  new # <<>> /\ new[1] = Head(dbQueue).then.trackName
      ]_vars
  /\ [][(HeadIs("trackPlay") /\ Answered) =>
         LET t   == Head(dbQueue).then.trackName
             old == RecentlyPlayedIn(folders, Head(dbQueue).key)
             new == dbQueue'[Len(dbQueue')].value[1].recentlyPlayed
         IN  t \in NamesIn(old) =>
               /\ new[1] = t
               /\ NamesIn(new) = NamesIn(old)
               /\ Len(new) = Len(old)
      ]_vars

\* a play of the last of 51 tracks was stored on top of a full list, and the
\* list dropped its oldest name to stay at the cap
C19_Witness ==
  /\ nPlays > 0
  /\ ManyId \in DOMAIN folders
  /\ Len(folders[ManyId].recentlyPlayed) = MAX_RECENTLY_PLAYED
  /\ folders[ManyId].recentlyPlayed[1] = Letters[MAX_RECENTLY_PLAYED + 1]
  /\ Letters[1] \notin NamesIn(folders[ManyId].recentlyPlayed)

RecentFoldersIn(stored) ==
  IF stored = <<>> THEN <<>> ELSE stored[1].recentFolders

\* C20: the stored settings.recentFolders has at most MAX_RECENT_FOLDERS
\* entries and no folderId twice, and when updateRecentFolders'
\* saveGlobalSettings is answered the folder of the call is first in it
C20_RecentFoldersCapped ==
  /\ [](LET list == RecentFoldersIn(settings)
        IN  /\ Len(list) <= MAX_RECENT_FOLDERS
            /\ \A i, j \in 1..Len(list) :
                 list[i].folderId = list[j].folderId => i = j)
  /\ [][HeadIs("updateRecentFolders.saved") /\ dbQueue' = Tail(dbQueue) =>
         LET list == RecentFoldersIn(settings')
         IN  /\ list # <<>>
             /\ list[1].folderId = Head(dbQueue).then.folderId
      ]_vars

\* an eleventh folder was opened on top of a full list, and the list dropped
\* its oldest folder to stay at the cap
C20_Witness ==
  /\ nRecent > 0
  /\ Len(RecentFoldersIn(settings)) = MAX_RECENT_FOLDERS
  /\ RecentFoldersIn(settings)[1].folderId = OpenedId(MAX_RECENT_FOLDERS + 1)
  /\ \A i \in 1..MAX_RECENT_FOLDERS :
       RecentFoldersIn(settings)[i].folderId # OpenedId(1)

\* C21: whenever a GlobalHistory record is stored, its totalPlays is the sum
\* of the playCounts of the entries of its tracks
C21_TotalPlaysIsSum ==
  globalHistory # <<>> =>
    globalHistory[1].totalPlays
      = SumPlayCounts(globalHistory[1].tracks, DOMAIN globalHistory[1].tracks)

\* C22: once a store operation has called initDB, exactly one openDB call
\* has been made, and all operations initDB has returned to were given the
\* same handle
C22_OneOpen ==
  /\ (worked # <<>> \/ opening # <<>>) => nOpens = 1
  /\ \A i, j \in 1..Len(worked) : worked[i].handle = worked[j].handle

\* C23: when a store operation of the trackPlay that handleEnded awaits
\* fails, the handler still goes on to its end: with repeat off, a file list
\* and the audio element, playNext sets the next index (any index under
\* shuffle) and a source, and the component renders.  (The restart of the
\* track under repeat sets no state.)
C23_PlaybackContinuesOnFailure ==
  [][(/\ dbQueue # <<>>
      /\ Head(dbQueue).then.k \in TrackPlaySteps
      /\ Head(dbQueue).then.caller.by = "handleEnded"
      /\ dbQueue' = Tail(dbQueue))
       => LET c == Head(dbQueue).then.caller
          IN  (~c.isRepeat /\ Len(c.files) > 0 /\ mounted)
                => /\ hasSrc' /\ renderPending'
                   /\ \/ c.isShuffle
                      \/ currentIndex' = (c.currentIndex + 1) % Len(c.files)
    ]_vars

\* the last scan or import to finish applied a document or a stored record
AuthoritativeApplied ==
  outcome \in {"scan.document", "scan.record", "import.applied"}

\* C24: when an accepted document or a stored record is applied to the
\* files scanned, the trackStats in memory become those of the document (as
\* importFolderData returns them) or of the record; and afterwards, as long
\* as no play and no queueing has been recorded, the answer to
\* loadTrackStats leaves them as they are
C24_TrackStatsStayAuthoritative ==
  /\ [][((ScanDocumentRead \/ ImportRead) /\ mounted
           /\ LoadedFromJson(Head(fileReads).text, Head(fileReads).files)
                # <<>>)
          => trackStats'
               = importFolderData(Head(fileReads).text,
                                  Head(fileReads).files)[1]
                   .folderData.trackStats
      ]_vars
  /\ [][(ScanRecordLoaded /\ mounted
           /\ loadFolderData(Head(dbQueue).key) # <<>>)
          => trackStats' = loadFolderData(Head(dbQueue).key)[1].trackStats
      ]_vars
  /\ [][(/\ HeadIs("loadTrackStats") /\ dbQueue' = Tail(dbQueue)
          /\ AuthoritativeApplied
          /\ nPlays = 0 /\ nQueues = 0)
          => trackStats' = trackStats
      ]_vars

\* C25: the favorites of every stored folder record have no track name
\* twice
C25_FavoritesUnique ==
  \A id \in DOMAIN folders : NoNameTwice(folders[id].favorites)

\* listA is a permutation of listB
IsPermutation(listA, listB) ==
  /\ Len(listA) = Len(listB)
  /\ \A x \in NamesIn(listA) \cup NamesIn(listB) :
       CountIn(listA, x) = CountIn(listB, x)

\* C26: every call of generateFolderId gives the id that every other call
\* with the same folder name and a permutation of the same track names
\* gives, the same list included
C26_FolderIdPure ==
  \A i, j \in 1..Len(idCalls) :
    (/\ idCalls[i].folderName = idCalls[j].folderName
     /\ IsPermutation(idCalls[i].trackNames, idCalls[j].trackNames))
      => idCalls[i].id = idCalls[j].id

\* two calls were made with the same folder name and the same three names
\* in different orders
C26_Witness ==
  /\ Len(idCalls) = 2
  /\ idCalls[1].folderName = idCalls[2].folderName
  /\ idCalls[1].trackNames = <<"C", "A", "B">>
  /\ idCalls[2].trackNames = <<"B", "C", "A">>
  /\ idCalls[1].id = idCalls[2].id

\* C27: two calls of generateFolderId with the same folder name and lists
\* that hold the same set of names give the same id, however often each
\* name occurs in each list
C27_FolderIdOfNameSet ==
  \A i, j \in 1..Len(idCalls) :
    (/\ idCalls[i].folderName = idCalls[j].folderName
     /\ NamesIn(idCalls[i].trackNames) = NamesIn(idCalls[j].trackNames))
      => idCalls[i].id = idCalls[j].id

\* C28: when the saveFolderData of the debounce timer is answered, no
\* track of the record stored before has a smaller playCount or queueCount
\* in the record stored after, or is missing from it, and every name of
\* recentlyPlayed is still in recentlyPlayed
C28_SaveKeepsPlays ==
  [][(HeadIs("saveFn") /\ dbQueue' = Tail(dbQueue)
        /\ Head(dbQueue).key \in DOMAIN folders)
       => LET old == folders[Head(dbQueue).key]
              new == folders'[Head(dbQueue).key]
          IN  /\ \A n \in DOMAIN old.trackStats :
                   /\ PlayCountIn(new.trackStats, n)
                        >= old.trackStats[n].playCount
                   /\ QueueCountIn(new.trackStats, n)
                        >= old.trackStats[n].queueCount
              /\ NamesIn(old.recentlyPlayed) \subseteq NamesIn(new.recentlyPlayed)
    ]_vars

\* the ids of the folders scanned: each from the name and the track names of
\* one scan
ScanIds == {generateFolderId(sc.folderName, sc.names) : sc \in Scans}

\* C29: every record the debounced save writes is written under the id of
\* a folder scanned, the id of the folder name and the track names of one
\* and the same scan
C29_SavedIdOfOneScan ==
  [][TimerElapses => dbQueue'[Len(dbQueue')].key \in ScanIds]_vars

\* a step of exportFolderData: handleExport submitting the read of the
\* folder's record, or one of its two reads being answered
ExportSubmits ==
  /\ Len(dbQueue') = Len(dbQueue) + 1
  /\ dbQueue'[Len(dbQueue')].then.k = "exportFolderData"
ExportStep ==
  \/ ExportSubmits
  \/ HeadIs("exportFolderData") /\ Answered
  \/ HeadIs("exportFolderData.history") /\ dbQueue' = Tail(dbQueue)

\* C30: no step of exportFolderData changes a record of the folders, the
\* settings or the global-history collection, and every request it submits
\* to the store is a read; also with no record stored for the folder and
\* no GlobalHistory record
C30_ExportOnlyReads ==
  [][ExportStep
       => /\ UNCHANGED storeVars
          /\ Len(dbQueue') >= Len(dbQueue)
               => dbQueue'[Len(dbQueue')].op = "get"]_vars

\* an export has returned its text, and the store holds no folder record
\* and no GlobalHistory record
C30_Witness ==
  /\ exported # <<>>
  /\ folders = <<>>
  /\ globalHistory = <<>>
====
